---- MODULE Spec2Model ----
(***************************************************************************)
(* ArchiveVault: the ingestion pipeline (importer.rs), the datastore       *)
(* (db.rs) and the annotation commands (annotations.rs) as a state         *)
(* machine.  The datastore variables hold the COMMITTED rows of db.sqlite, *)
(* i.e. what any other connection can read; rows written inside an open    *)
(* transaction live in the writer until its commit step.                   *)
(*                                                                         *)
(* Threads: import_zips runs import_zips_impl on a blocking worker         *)
(* (importer.rs:94-97); every other command is a synchronous command and   *)
(* runs on the interactive thread, one command at a time.                  *)
(***************************************************************************)
EXTENDS Integers, Sequences, FiniteSets, Bags, TLC

VARIABLES
    archives,          \* table archives (committed rows)
    main_doc,          \* table main_doc
    docx_blocks,       \* table docx_blocks
    docx_blocks_fts,   \* fts5 table docx_blocks_fts (a bag: no key)
    main_doc_fts,      \* fts5 table main_doc_fts
    attachments,       \* table attachments
    attachments_fts,   \* fts5 table attachments_fts
    annotations,       \* table annotations
    annotations_fts,   \* fts5 table annotations_fts
    store,             \* archive ids whose directory store/<archive_id>/ holds the ZIP
    uuids,             \* number of Uuid::new_v4() archive ids drawn so far
    ann_uuids,         \* number of Uuid::new_v4() annotation ids drawn so far
    extractor,         \* field-extractor logic of the running build: 1, or 2 once upgraded
    fk_default,        \* does a plain Connection::open enforce foreign keys in this build
    tx_owner,          \* connection holding SQLite's write lock across steps, or "none"
    wpc,               \* import worker: position in import_zips_impl / import_one_zip
    wfile,             \* import worker: the source file being imported
    wid,               \* import worker: archive_id of the file being imported
    outcome,           \* import worker: how the last import_one_zip call was counted
    mpc,               \* interactive thread: position in the running command
    marg,              \* interactive thread: argument (archive or annotation id)
    issued,            \* interactive thread: number of commands started so far
    mlast,             \* interactive thread: the last command, if it returned Ok
    ever_att,          \* history: every attachment row ever committed, with its content
    ever_blocks,       \* history: key of every docx_blocks row ever committed
    seen,              \* history: ids of the archives rows ever inserted, the ids
                       \* list_archives can have shown
    batch,             \* one import_zips_impl call seen by itself: its paths and locals
    fx,                \* one extract_fields_and_map call: its blocks and locals
    hl,                \* one compute_highlights_utf16 call: its arguments and locals
    sq,                \* one search_paged_impl call: its request, the rows and locals
    zd,                \* one parse_zip_date_from_name call: its arguments and result
    wa                 \* one write of the attachments of an archive: the ZIP and locals

db_vars == <<archives, main_doc, docx_blocks, docx_blocks_fts, main_doc_fts,
             attachments, attachments_fts, annotations, annotations_fts>>
w_vars == <<wpc, wfile, wid, outcome>>
history == <<ever_att, ever_blocks, seen>>
m_vars == <<mpc, marg, issued, mlast>>
pure == <<batch, fx, hl, sq, zd, wa>>
lib_vars == <<db_vars, store, uuids, ann_uuids, extractor, fk_default, tx_owner,
              w_vars, m_vars, history>>
vars == <<lib_vars, pure>>
not_batch == <<lib_vars, fx, hl, sq, zd, wa>>
not_fx == <<lib_vars, batch, hl, sq, zd, wa>>
not_hl == <<lib_vars, batch, fx, sq, zd, wa>>
not_sq == <<lib_vars, batch, fx, hl, zd, wa>>
not_zd == <<lib_vars, batch, fx, hl, sq, wa>>
not_wa == <<lib_vars, batch, fx, hl, sq, zd>>

----------------------------------------------------------------------------
(* Bounds of the model *)
MaxOps == 3   \* operations started per run: imports of new content plus commands

Workers == {"w1"}
NoId == "none"
NoArg == [id |-> NoId, archive_id |-> NoId]
NoCommand == [op |-> "none", id |-> NoId]
ArchiveUuid(n) == "u" \o ToString(n)
AnnotationUuid(n) == "n" \o ToString(n)

(* Source files offered to import: byte contents (named by their sha256)   *)
(* under file names.                                                       *)
File(c, n) == [sha256 |-> c, original_name |-> n]
Files == { File("c1", "a.zip"), File("c1", "b.zip"), File("c2", "b.zip") }
NoFile == [sha256 |-> "none", original_name |-> "none"]

(* Directory of each ZIP: entries in directory order; ext is the lower-    *)
(* cased extension of the decoded name, nested the directory of a child    *)
(* ZIP.                                                                    *)
Entry(n, s, e, nst) == [name |-> n, stem |-> s, ext |-> e, nested |-> nst]
ZipEntries(c) ==
    CASE c = "c1" -> << Entry("a.docx", "a", "docx", <<>>),
                        Entry("r.pdf", "r", "pdf", <<>>),
                        Entry("sub.zip", "sub", "zip",
                              << Entry("s.pdf", "s", "pdf", <<>>),
                                 Entry("in.zip", "in", "zip",
                                       << Entry("deep.pdf", "deep", "pdf", <<>>) >>) >>) >>
      [] c = "c2" -> << Entry("x.docx", "x", "docx", <<>>),
                        Entry("b.docx", "b", "docx", <<>>) >>
      [] OTHER    -> <<>>


(* Paragraphs the build's extractor reads from the main document. *)
Paragraphs(c, v) ==
    CASE c = "c1" /\ v = 1 -> << "c1 first", "c1 second" >>
      [] c = "c1"          -> << "c1 merged" >>
      [] c = "c2" /\ v = 1 -> << "c2 only" >>
      [] OTHER             -> << "c2 head", "c2 tail" >>

FileStem(name) == IF name = "a.zip" THEN "a" ELSE "b"

----------------------------------------------------------------------------
(* Pure functions of importer.rs and docx.rs *)

SeqToSet(s) == { s[i] : i \in 1..Len(s) }
Min(S) == CHOOSE x \in S : \A y \in S : x <= y

file_type_from_name(ext) ==
    CASE ext = "pdf"  -> "pdf"
      [] ext \in {"xlsx", "xls"} -> "excel"
      [] ext \in {"png", "jpg", "jpeg", "gif", "bmp"} -> "image"
      [] ext \in {"mp4", "mov", "avi", "wmv"} -> "video"
      [] ext = "docx" -> "docx_other"
      [] ext = "zip"  -> "zip_child"
      [] OTHER -> "other"

(* identify_main_docx: the docx entry whose stem equals the ZIP's stem,    *)
(* else one whose stem contains or is contained in it (for the one-letter  *)
(* stems of the model: equality), else the first docx entry; NoId when the *)
(* ZIP holds no docx.                                                      *)
identify_main_docx(zip_filename, c) ==
    LET es == ZipEntries(c)
        docx == { i \in 1..Len(es) : es[i].ext = "docx" }
        exact == { i \in docx : es[i].stem = FileStem(zip_filename) }
    IN  IF docx = {} THEN NoId
        ELSE IF exact # {} THEN es[Min(exact)].name
        ELSE es[Min(docx)].name

BlockId(idx) == "p:00000" \o ToString(idx)

(* parse_main_docx: one block per paragraph, ids in paragraph order. *)
parse_main_docx(c, v) ==
    LET ps == Paragraphs(c, v)
        tag == c \o "/v" \o ToString(v)
    IN  [ instruction_no |-> "no " \o tag,
          title |-> "title " \o tag,
          issued_at |-> "at " \o tag,
          content |-> "body " \o tag,
          field_block_map_json |-> "map " \o tag,
          blocks |-> [ i \in 1..Len(ps) |-> [block_id |-> BlockId(i), text |-> ps[i]] ] ]

(* stable_file_id: sha256 over archive_id|depth|container|virtual_path; the *)
(* digest is modelled by the byte string it is computed over.               *)
stable_file_id(archive_id, source_depth, container_virtual_path, virtual_path) ==
    archive_id \o "|" \o ToString(source_depth) \o "|"
        \o (IF container_virtual_path = NoId THEN "" ELSE container_virtual_path)
        \o "|" \o virtual_path

Att(dn, ty, depth, cont, vp) ==
    [display_name |-> dn, file_type |-> ty, source_depth |-> depth,
     container_virtual_path |-> cont, virtual_path |-> vp]

(* A walk of a child ZIP that would not record which ZIP held the entry *)
Depth1_unset(child, es) ==
    [ i \in 1..Len(es) |->
        Att("[" \o child.name \o "]/" \o es[i].name, file_type_from_name(es[i].ext),
            1, NoId, es[i].name) ]

(* enumerate_attachments: the entries of the main ZIP except the main      *)
(* document, then, for each child ZIP in directory order, its entries.     *)
(* The entries of a ZIP inside a child ZIP are not walked.                 *)
RECURSIVE Depth0(_, _), Depth1(_, _), Children(_)
Depth0(es, main_docx_name) ==
    IF es = <<>> THEN <<>>
    ELSE LET e == Head(es)
         IN  (IF e.ext = "docx" /\ e.name = main_docx_name THEN <<>>
              ELSE << Att(e.name, file_type_from_name(e.ext), 0, NoId, e.name) >>)
             \o Depth0(Tail(es), main_docx_name)
Depth1(child, es) ==
    IF es = <<>> THEN <<>>
    ELSE LET e == Head(es)
         IN  << Att("[" \o child.name \o "]/" \o e.name, file_type_from_name(e.ext),
                    1, child.name, e.name) >>
             \o Depth1(child, Tail(es))
Children(es) ==
    IF es = <<>> THEN <<>>
    ELSE (IF file_type_from_name(Head(es).ext) = "zip_child"
          THEN Depth1(Head(es), Head(es).nested) ELSE <<>>)
         \o Children(Tail(es))
enumerate_attachments(es, main_docx_name) ==
    Depth0(es, main_docx_name) \o Children(es)

----------------------------------------------------------------------------
(* The datastore *)

(* DELETE FROM <fts> WHERE archive_id=? on a keyless fts5 table *)
delete_fts(fts, a) == [ e \in { x \in DOMAIN fts : x.archive_id # a } |-> fts[e] ]
Ids(table) == { r.archive_id : r \in table }
ArchiveIds == Ids(archives)
Row(a) == CHOOSE r \in archives : r.archive_id = a

(* an empty library, with the import_zips calls of `workers` not yet begun *)
InitWith(workers) ==
    /\ archives = {} /\ main_doc = {} /\ docx_blocks = {} /\ attachments = {}
    /\ annotations = {}
    /\ docx_blocks_fts = EmptyBag /\ main_doc_fts = EmptyBag
    /\ attachments_fts = EmptyBag /\ annotations_fts = EmptyBag
    /\ store = {} /\ uuids = 0 /\ ann_uuids = 0 /\ extractor = 1
    /\ fk_default \in BOOLEAN
    /\ tx_owner = "none"
    /\ wpc = [w \in workers |-> "idle"]
    /\ wfile = [w \in workers |-> NoFile]
    /\ wid = [w \in workers |-> NoId]
    /\ outcome = [w \in workers |-> "none"]
    /\ mpc = "idle" /\ marg = NoArg /\ issued = 0
    /\ mlast = NoCommand
    /\ ever_att = {} /\ ever_blocks = {} /\ seen = {}

InitLibrary == InitWith(Workers)


NoBatch == [returned |-> TRUE]


NoFx == [done |-> TRUE]
NoHl == [done |-> TRUE]
NoSq == [done |-> TRUE]
NoZd == [done |-> TRUE]
NoWa == [done |-> TRUE]

Init ==
    /\ InitLibrary
    /\ batch = NoBatch /\ fx = NoFx /\ hl = NoHl /\ sq = NoSq /\ zd = NoZd
    /\ wa = NoWa
----------------------------------------------------------------------------
(* db.rs: init_db, run first by every command *)

rebuild_annotations_fts ==
    SetToBag({ [archive_id |-> r.archive_id, annotation_id |-> r.annotation_id]
               : r \in annotations })

ensure_annotations_fts_synced ==
    LET a_cnt == Cardinality(annotations)
        f_cnt == BagCardinality(annotations_fts)
    IN  IF a_cnt = 0 /\ f_cnt = 0 THEN annotations_fts
        ELSE IF a_cnt # f_cnt THEN rebuild_annotations_fts
        ELSE annotations_fts

(* init_db writes only when it rebuilds, and then needs the write lock. *)
init_db_ready == ensure_annotations_fts_synced # annotations_fts => tx_owner = "none"

----------------------------------------------------------------------------
(* importer.rs: import_zips_impl and import_one_zip, on the import worker *)

SetW(pc, f, id, oc, w) ==
    /\ wpc' = [wpc EXCEPT ![w] = pc]
    /\ wfile' = [wfile EXCEPT ![w] = f]
    /\ wid' = [wid EXCEPT ![w] = id]
    /\ outcome' = [outcome EXCEPT ![w] = oc]

(* import_zips_impl, lines 126-127: init_db, then the loop over the paths *)
import_zips_impl_begin(w) ==
    /\ wpc[w] = "idle"
    /\ init_db_ready
    /\ annotations_fts' = ensure_annotations_fts_synced
    /\ SetW("loop", NoFile, NoId, "none", w)
    /\ UNCHANGED <<archives, main_doc, docx_blocks, docx_blocks_fts, main_doc_fts,
                   attachments, attachments_fts, annotations, store, uuids,
                   ann_uuids, extractor, fk_default, pure, tx_owner, m_vars, history>>

(* import_zips_impl, line 171: the paths are exhausted *)
import_zips_impl_end(w) ==
    /\ wpc[w] = "loop"
    /\ SetW("idle", NoFile, NoId, "none", w)
    /\ UNCHANGED <<db_vars, store, uuids, ann_uuids, extractor, fk_default, pure,
                   tx_owner, m_vars, history>>

(* import_one_zip, line 383: sha256_file fails on an unreadable source *)
import_one_zip_unreadable(w) ==
    /\ wpc[w] = "loop"
    /\ SetW("loop", NoFile, NoId, "failed", w)
    /\ UNCHANGED <<db_vars, store, uuids, ann_uuids, extractor, fk_default, pure,
                   tx_owner, m_vars, history>>

(* A dedup lookup that would only see completed archives *)
dedup_exists_completed(f) ==
    \E r \in archives : r.sha256 = f.sha256 /\ r.status = "completed"

(* import_one_zip, lines 384-397: the dedup lookup, then a fresh archive id *)
dedup_exists(f) ==
 \E r \in archives : r.sha256 = f.sha256

import_one_zip_dedup(w, f) ==
    /\ wpc[w] = "loop"
    /\ IF dedup_exists(f)
       THEN /\ SetW("loop", f, NoId, "skipped", w)
            /\ UNCHANGED uuids
       ELSE /\ uuids + issued < MaxOps
            /\ uuids' = uuids + 1
            /\ SetW("copy", f, ArchiveUuid(uuids + 1), "none", w)
    /\ UNCHANGED <<db_vars, store, ann_uuids, extractor, fk_default, pure, tx_owner,
                   m_vars, history>>

(* An error arm whose UPDATE would change no row *)
mark_failed_skip(a) == archives

(* import_one_zip, lines 499-509: the error arm.  The open transaction is   *)
(* dropped (rolled back) and the archive row, if there is one, is marked.   *)
mark_failed(a) ==
    { IF r.archive_id = a THEN [r EXCEPT !.status = "failed", !.error = "err"] ELSE r
      : r \in archives }

import_failed(w) ==
    /\ archives' = mark_failed(wid[w])
    /\ tx_owner' = IF tx_owner = w THEN "none" ELSE tx_owner
    /\ SetW("loop", NoFile, wid[w], "failed", w)
    /\ UNCHANGED <<main_doc, docx_blocks, docx_blocks_fts, main_doc_fts, attachments,
                   attachments_fts, annotations, annotations_fts, store, uuids,
                   ann_uuids, extractor, fk_default, pure, m_vars, history>>

(* import_one_zip, lines 401-402: create_dir_all and fs::copy *)
import_one_zip_copy(w) ==
    /\ wpc[w] = "copy"
    /\ store' = store \cup {wid[w]}
    /\ wpc' = [wpc EXCEPT ![w] = "insert"]
    /\ UNCHANGED <<db_vars, uuids, ann_uuids, extractor, fk_default, pure, tx_owner,
                   wfile, wid, outcome, m_vars, history>>

import_one_zip_copy_fail(w) ==
    /\ wpc[w] = "copy"
    /\ import_failed(w)

(* archives.sha256 is UNIQUE (db.rs:101). *)
sha256_unique_refuses(sha) == \E r \in archives : r.sha256 = sha

(* import_one_zip, lines 406-419: INSERT INTO archives, status processing *)
import_one_zip_insert(w) ==
    /\ wpc[w] = "insert"
    /\ tx_owner = "none"
    /\ IF sha256_unique_refuses(wfile[w].sha256)
       THEN import_failed(w)
       ELSE /\ archives' = archives \cup
                   { [archive_id |-> wid[w], sha256 |-> wfile[w].sha256,
                      original_name |-> wfile[w].original_name,
                      status |-> "processing", error |-> ""] }
            /\ wpc' = [wpc EXCEPT ![w] = "parse"]
            /\ seen' = seen \cup {wid[w]}
            /\ UNCHANGED <<main_doc, docx_blocks, docx_blocks_fts, main_doc_fts,
                           attachments, attachments_fts, annotations, annotations_fts,
                           store, uuids, ann_uuids, extractor, fk_default, pure, tx_owner,
                           wfile, wid, outcome, m_vars, ever_att, ever_blocks>>

(* import_one_zip, lines 406-419: the INSERT fails for another reason (an   *)
(* I/O error, a full disk); the bytes are already stored.                   *)
import_one_zip_insert_fail(w) ==
    /\ wpc[w] = "insert"
    /\ import_failed(w)

(* An open that would succeed although the stored directory was removed *)
stored_zip_always_opens(a) == TRUE

(* fs::File::open of store/<archive_id>/<original_name> (lines 422, 635) *)

stored_zip_opens(a) == a \in store

(* import_one_zip, lines 422-428: open the stored ZIP, identify and read    *)
(* the main docx, parse it                                                  *)
import_one_zip_parse(w) ==
    /\ wpc[w] = "parse"
    /\ IF ~stored_zip_opens(wid[w])
          \/ identify_main_docx(wfile[w].original_name, wfile[w].sha256) = NoId
       THEN import_failed(w)
       ELSE /\ wpc' = [wpc EXCEPT ![w] = "tx"]
            /\ UNCHANGED <<db_vars, store, uuids, ann_uuids, extractor, fk_default, pure,
                           tx_owner, wfile, wid, outcome, m_vars, history>>
(* Rows one ingestion writes for archive a from content c: lines 432-474    *)
(* (and 231-291 of reparse_main_doc_impl).                                  *)
MainDocRow(a, c, v) ==
    LET p == parse_main_docx(c, v)
    IN  [archive_id |-> a, instruction_no |-> p.instruction_no, title |-> p.title,
         issued_at |-> p.issued_at, content |-> p.content,
         field_block_map_json |-> p.field_block_map_json]
BlockRows(a, c, v) ==
    { [archive_id |-> a, block_id |-> b.block_id, text |-> b.text]
      : b \in SeqToSet(parse_main_docx(c, v).blocks) }
BlockKeys(a, c, v) ==
    { [archive_id |-> r.archive_id, block_id |-> r.block_id] : r \in BlockRows(a, c, v) }
BlockFtsRows(a, c, v) ==
    SetToBag({ [archive_id |-> a, block_id |-> b.block_id, source_text |-> b.text]
               : b \in SeqToSet(parse_main_docx(c, v).blocks) })
FieldFtsRows(a, c, v) ==
    LET p == parse_main_docx(c, v)
    IN  SetToBag({ [archive_id |-> a, field_name |-> "instruction_no",
                    source_text |-> p.instruction_no],
                   [archive_id |-> a, field_name |-> "title", source_text |-> p.title],
                   [archive_id |-> a, field_name |-> "issued_at",
                    source_text |-> p.issued_at],
                   [archive_id |-> a, field_name |-> "content",
                    source_text |-> p.content] })

(* Rows that would keep the ids enumerate_attachments computed under the    *)
(* placeholder archive id                                                   *)
AttachmentRows_placeholder(a, atts) ==
    [ i \in 1..Len(atts) |->
        [file_id |-> stable_file_id("__ARCHIVE_ID__", atts[i].source_depth,
                                    atts[i].container_virtual_path,
                                    atts[i].virtual_path),
         archive_id |-> a, display_name |-> atts[i].display_name,
         file_type |-> atts[i].file_type, source_depth |-> atts[i].source_depth,
         container_virtual_path |-> atts[i].container_virtual_path,
         virtual_path |-> atts[i].virtual_path] ]

(* write_attachments_tx, lines 748-750: the placeholder ids are replaced by *)
(* stable_file_id under the archive's id.                                   *)
AttachmentRows(a, atts) ==
    [ i \in 1..Len(atts) |->
        [file_id |-> stable_file_id(a, atts[i].source_depth,
                                    atts[i].container_virtual_path,
                                    atts[i].virtual_path),
         archive_id |-> a, display_name |-> atts[i].display_name,
         file_type |-> atts[i].file_type, source_depth |-> atts[i].source_depth,
         container_virtual_path |-> atts[i].container_virtual_path,
         virtual_path |-> atts[i].virtual_path] ]

(* file_id is the primary key of attachments (db.rs:144). *)
AttachmentKeyClash(rows) ==
    \/ \E i, j \in 1..Len(rows) : i < j /\ rows[i].file_id = rows[j].file_id
    \/ \E i \in 1..Len(rows) : \E r \in attachments : r.file_id = rows[i].file_id

(* A connection that enforces foreign keys refuses a child row of a missing *)
(* archive.                                                                 *)
fk_refuses(enforced, a) == enforced /\ a \notin ArchiveIds

(* import_one_zip, lines 431-474: conn.transaction() and the inserts of     *)
(* main_doc, docx_blocks and the two fts tables; the first insert takes the *)
(* write lock, which is held until the commit.                              *)
import_one_zip_tx(w) ==
    /\ wpc[w] = "tx"
    /\ tx_owner = "none"
    /\ IF \/ wid[w] \in Ids(main_doc)
          \/ wid[w] \in Ids(docx_blocks)
          \/ fk_refuses(fk_default, wid[w])
       THEN import_failed(w)
       ELSE /\ tx_owner' = w
            /\ wpc' = [wpc EXCEPT ![w] = "commit"]
            /\ UNCHANGED <<db_vars, store, uuids, ann_uuids, extractor, fk_default, pure,
                           wfile, wid, outcome, m_vars, history>>

(* import_one_zip, lines 478-485: enumerate_attachments reopens the stored  *)
(* ZIP, write_attachments_tx, UPDATE archives SET status='completed',       *)
(* commit.  The rows of the whole transaction become visible here.          *)
import_one_zip_commit(w) ==
    LET a == wid[w]
        c == wfile[w].sha256
        atts == AttachmentRows(a, enumerate_attachments(ZipEntries(c),
                    identify_main_docx(wfile[w].original_name, c)))
    IN  /\ wpc[w] = "commit"
        /\ tx_owner = w
        /\ IF ~stored_zip_opens(a) \/ AttachmentKeyClash(atts)
           THEN import_failed(w)
           ELSE /\ main_doc' = main_doc \cup {MainDocRow(a, c, extractor)}
                /\ docx_blocks' = docx_blocks \cup BlockRows(a, c, extractor)
                /\ docx_blocks_fts' = docx_blocks_fts (+) BlockFtsRows(a, c, extractor)
                /\ main_doc_fts' = main_doc_fts (+) FieldFtsRows(a, c, extractor)
                /\ attachments' = attachments \cup SeqToSet(atts)
                /\ attachments_fts' = attachments_fts (+)
                       SetToBag({ [archive_id |-> a, file_id |-> r.file_id,
                                   display_name |-> r.display_name]
                                  : r \in SeqToSet(atts) })
                /\ archives' = { IF r.archive_id = a
                                 THEN [r EXCEPT !.status = "completed"] ELSE r
                                 : r \in archives }
                /\ ever_att' = ever_att \cup
                       { [archive_id |-> a, sha256 |-> c,
                          source_depth |-> r.source_depth,
                          container_virtual_path |-> r.container_virtual_path,
                          virtual_path |-> r.virtual_path, file_id |-> r.file_id]
                         : r \in SeqToSet(atts) }
                /\ ever_blocks' = ever_blocks \cup BlockKeys(a, c, extractor)
                /\ tx_owner' = "none"
                /\ SetW("loop", NoFile, a, "imported", w)
                /\ UNCHANGED <<annotations, annotations_fts, store, uuids, ann_uuids,
                               extractor, fk_default, pure, m_vars, seen>>

(* import_one_zip, lines 431-485: a statement of the transaction or its     *)
(* commit fails                                                             *)
import_one_zip_tx_fail(w) ==
    /\ wpc[w] = "commit"
    /\ tx_owner = w
    /\ import_failed(w)
----------------------------------------------------------------------------
(* Commands of the interactive thread *)

DrawnAnn == { AnnotationUuid(n) : n \in 1..ann_uuids }

Returned(op, id, ok) ==
    /\ mpc' = "idle"
    /\ marg' = NoArg
    /\ mlast' = IF ok THEN [op |-> op, id |-> id] ELSE NoCommand

(* reparse_main_doc_impl, lines 193-223: init_db, read the archive row,     *)
(* check and open the stored ZIP, identify and parse the main docx          *)
reparse_main_doc_impl_read(a) ==
    /\ mpc = "idle"
    /\ uuids + issued < MaxOps
    /\ issued' = issued + 1
    /\ init_db_ready
    /\ annotations_fts' = ensure_annotations_fts_synced
    /\ IF \/ a \notin ArchiveIds
          \/ a \notin store
          \/ identify_main_docx(Row(a).original_name, Row(a).sha256) = NoId
       THEN Returned("reextract", a, FALSE)
       ELSE /\ mpc' = "rex_tx"
            /\ marg' = [id |-> a, archive_id |-> a]
            /\ UNCHANGED mlast
    /\ UNCHANGED <<archives, main_doc, docx_blocks, docx_blocks_fts, main_doc_fts,
                   attachments, attachments_fts, annotations, store, uuids, ann_uuids,
                   extractor, fk_default, pure, tx_owner, w_vars, history>>

(* A replacement that would not delete the archive's previous rows *)
replace_rows_keep(table, a, new) == table \cup new

(* reparse_main_doc_impl, lines 232-267: UPDATE main_doc or, when it has no *)
(* row, INSERT; DELETE FROM docx_blocks WHERE archive_id=?, then the inserts *)
replace_rows(table, a, new) == { r \in table : r.archive_id # a } \cup new

(* reparse_main_doc_impl, lines 259-291: DELETE FROM <fts> WHERE            *)
(* archive_id=?, then the inserts                                           *)
replace_fts(fts, a, new) == delete_fts(fts, a) (+) new

(* reparse_main_doc_impl, lines 229-297: one transaction.  The name and the *)
(* bytes are those read before it (lines 197-216).                          *)
reparse_main_doc_impl_tx(name, c) ==
    LET a == marg.archive_id
    IN  /\ mpc = "rex_tx" /\ UNCHANGED issued
        /\ tx_owner = "none"
        /\ IF a \notin Ids(main_doc) /\ fk_refuses(fk_default, a)
           THEN /\ Returned("reextract", a, FALSE)
                /\ UNCHANGED <<db_vars, history>>
           ELSE /\ main_doc' = replace_rows(main_doc, a, {MainDocRow(a, c, extractor)})
                /\ docx_blocks' = replace_rows(docx_blocks, a, BlockRows(a, c, extractor))
                /\ docx_blocks_fts' =
                       replace_fts(docx_blocks_fts, a, BlockFtsRows(a, c, extractor))
                /\ main_doc_fts' =
                       replace_fts(main_doc_fts, a, FieldFtsRows(a, c, extractor))
                /\ ever_blocks' = ever_blocks \cup BlockKeys(a, c, extractor)
                /\ UNCHANGED <<ever_att, seen>>
                /\ archives' = { IF r.archive_id = a
                                 THEN [r EXCEPT !.status = "completed", !.error = ""]
                                 ELSE r : r \in archives }
                /\ Returned("reextract", a, TRUE)
                /\ UNCHANGED <<attachments, attachments_fts, annotations,
                               annotations_fts>>
        /\ UNCHANGED <<store, uuids, ann_uuids, extractor, fk_default, pure, tx_owner,
                       w_vars>>

(* A statement that needs the write lock while an import transaction holds  *)
(* it ends with SQLITE_BUSY once the busy timeout has passed.               *)
busy(pc, op) ==
    /\ mpc = pc /\ UNCHANGED issued
    /\ tx_owner # "none"
    /\ Returned(op, marg.id, FALSE)
    /\ UNCHANGED <<db_vars, store, uuids, ann_uuids, extractor, fk_default, pure,
                   tx_owner, w_vars, history>>

(* A re-extract that would record its failure on the Archive, as the error  *)
(* arm of import does                                                       *)
reparse_main_doc_impl_marks_failed ==
    /\ mpc = "rex_tx" /\ UNCHANGED issued
    /\ tx_owner # "none"
    /\ archives' = mark_failed(marg.archive_id)
    /\ Returned("reextract", marg.id, FALSE)
    /\ UNCHANGED <<main_doc, docx_blocks, docx_blocks_fts, main_doc_fts, attachments,
                   attachments_fts, annotations, annotations_fts, store, uuids,
                   ann_uuids, extractor, fk_default, pure, tx_owner, w_vars, history>>

reparse_main_doc_impl_busy == busy("rex_tx", "reextract")


(* delete_archive_impl, lines 393-396 (after open_conn's init_db):          *)
(* remove_dir_all(store/<archive_id>)                                       *)
delete_archive_impl_remove_dir(a) ==
    /\ mpc = "idle"
    /\ uuids + issued < MaxOps
    /\ issued' = issued + 1
    /\ init_db_ready
    /\ annotations_fts' = ensure_annotations_fts_synced
    /\ store' = store \ {a}
    /\ mpc' = "del_tx"
    /\ marg' = [id |-> a, archive_id |-> a]
    /\ UNCHANGED <<archives, main_doc, docx_blocks, docx_blocks_fts, main_doc_fts,
                   attachments, attachments_fts, annotations, uuids, ann_uuids,
                   extractor, fk_default, pure, tx_owner, w_vars, mlast, history>>

(* A delete on a connection that would not enforce foreign keys *)
cascade_off(table, a) == table

(* delete_archive_impl, lines 398-408: one transaction on a connection of   *)
(* open_conn_at, which enforces foreign keys: the four fts deletes, then    *)
(* DELETE FROM archives with ON DELETE CASCADE to the four child tables.    *)
cascade(table, a) == { r \in table : r.archive_id # a }

delete_archive_impl_tx ==
    LET a == marg.archive_id
    IN  /\ mpc = "del_tx" /\ UNCHANGED issued
        /\ tx_owner = "none"
        /\ docx_blocks_fts' = delete_fts(docx_blocks_fts, a)
        /\ main_doc_fts' = delete_fts(main_doc_fts, a)
        /\ attachments_fts' = delete_fts(attachments_fts, a)
        /\ annotations_fts' = delete_fts(annotations_fts, a)
        /\ archives' = { r \in archives : r.archive_id # a }
        /\ main_doc' = cascade(main_doc, a)
        /\ docx_blocks' = cascade(docx_blocks, a)
        /\ attachments' = cascade(attachments, a)
        /\ annotations' = cascade(annotations, a)
        /\ Returned("delete_archive", a, TRUE)
        /\ UNCHANGED <<store, uuids, ann_uuids, extractor, fk_default, pure, tx_owner,
                       w_vars, history>>

delete_archive_impl_busy == busy("del_tx", "delete_archive")

(* create_annotation_impl, lines 47-67: init_db, INSERT INTO annotations *)
create_annotation_impl_insert(a) ==
    /\ mpc = "idle"
    /\ uuids + issued < MaxOps
    /\ issued' = issued + 1
    /\ init_db_ready
    /\ tx_owner = "none"
    /\ annotations_fts' = ensure_annotations_fts_synced
    /\ IF fk_refuses(fk_default, a)
       THEN /\ Returned("create_annotation", NoId, FALSE)
            /\ UNCHANGED <<annotations, ann_uuids>>
       ELSE /\ ann_uuids' = ann_uuids + 1
            /\ annotations' = annotations \cup
                   { [annotation_id |-> AnnotationUuid(ann_uuids + 1), archive_id |-> a] }
            /\ mpc' = "ann_fts"
            /\ marg' = [id |-> AnnotationUuid(ann_uuids + 1), archive_id |-> a]
            /\ UNCHANGED mlast
    /\ UNCHANGED <<archives, main_doc, docx_blocks, docx_blocks_fts, main_doc_fts,
                   attachments, attachments_fts, store, uuids, extractor, fk_default, pure,
                   tx_owner, w_vars, history>>

(* create_annotation_impl, lines 70-74: INSERT INTO annotations_fts *)
create_annotation_impl_fts ==
    /\ mpc = "ann_fts" /\ UNCHANGED issued
    /\ tx_owner = "none"
    /\ annotations_fts' = annotations_fts (+)
           SetToBag({ [archive_id |-> marg.archive_id, annotation_id |-> marg.id] })
    /\ Returned("create_annotation", marg.id, TRUE)
    /\ UNCHANGED <<archives, main_doc, docx_blocks, docx_blocks_fts, main_doc_fts,
                   attachments, attachments_fts, annotations, store, uuids, ann_uuids,
                   extractor, fk_default, pure, tx_owner, w_vars, history>>

create_annotation_impl_busy == busy("ann_fts", "create_annotation")

(* delete_annotation_impl, lines 143-146: init_db, DELETE FROM annotations *)
delete_annotation_impl_delete(n) ==
    /\ mpc = "idle"
    /\ uuids + issued < MaxOps
    /\ issued' = issued + 1
    /\ init_db_ready
    /\ tx_owner = "none"
    /\ annotations_fts' = ensure_annotations_fts_synced
    /\ annotations' = { r \in annotations : r.annotation_id # n }
    /\ mpc' = "dann_fts"
    /\ marg' = [id |-> n, archive_id |-> NoId]
    /\ UNCHANGED <<archives, main_doc, docx_blocks, docx_blocks_fts, main_doc_fts,
                   attachments, attachments_fts, store, uuids, ann_uuids, extractor,
                   fk_default, pure, tx_owner, w_vars, mlast, history>>

(* delete_annotation_impl, line 147: DELETE FROM annotations_fts *)
delete_annotation_impl_fts ==
    /\ mpc = "dann_fts" /\ UNCHANGED issued
    /\ tx_owner = "none"
    /\ annotations_fts' = [ e \in { x \in DOMAIN annotations_fts : x.annotation_id # marg.id }
                             |-> annotations_fts[e] ]
    /\ Returned("delete_annotation", marg.id, TRUE)
    /\ UNCHANGED <<archives, main_doc, docx_blocks, docx_blocks_fts, main_doc_fts,
                   attachments, attachments_fts, annotations, store, uuids, ann_uuids,
                   extractor, fk_default, pure, tx_owner, w_vars, history>>

delete_annotation_impl_busy == busy("dann_fts", "delete_annotation")

(* A new build with changed field-extractor logic is installed and started: *)
(* no command is running.                                                   *)
upgrade_extractor ==
    /\ mpc = "idle"
    /\ \A w \in Workers : wpc[w] = "idle"
    /\ extractor = 1
    /\ extractor' = extractor + 1
    /\ mlast' = NoCommand
    /\ UNCHANGED <<db_vars, store, uuids, ann_uuids, fk_default, pure, tx_owner, w_vars,
                   mpc, marg, issued, history>>

----------------------------------------------------------------------------
Import(w) ==
    \/ import_zips_impl_begin(w)
    \/ import_zips_impl_end(w)
    \/ import_one_zip_unreadable(w)

    \/ \E f \in Files : import_one_zip_dedup(w, f)
    \/ import_one_zip_copy(w)
    \/ import_one_zip_copy_fail(w)
    \/ import_one_zip_insert(w)
    \/ import_one_zip_insert_fail(w)
    \/ import_one_zip_parse(w)
    \/ import_one_zip_tx(w)
    \/ import_one_zip_commit(w)
    \/ import_one_zip_tx_fail(w)

Command ==
    \/ \E a \in seen : reparse_main_doc_impl_read(a)
    \/ reparse_main_doc_impl_tx(Row(marg.archive_id).original_name,
                                Row(marg.archive_id).sha256)
    \/ reparse_main_doc_impl_busy
    \/ \E a \in seen : delete_archive_impl_remove_dir(a)
    \/ delete_archive_impl_tx
    \/ delete_archive_impl_busy
    \/ \E a \in seen : create_annotation_impl_insert(a)
    \/ create_annotation_impl_fts
    \/ create_annotation_impl_busy
    \/ \E n \in DrawnAnn : delete_annotation_impl_delete(n)
    \/ delete_annotation_impl_fts
    \/ delete_annotation_impl_busy
    \/ upgrade_extractor

Next == (\E w \in Workers : Import(w)) \/ Command

Spec == Init /\ [][Next]_vars

----------------------------------------------------------------------------
(* Shared vocabulary of the properties *)

RowsOf(table, a) == { r \in table : r.archive_id = a }
FtsOf(fts, a) == [ e \in { x \in DOMAIN fts : x.archive_id = a } |-> fts[e] ]

NoContent(a) ==
    /\ RowsOf(main_doc, a) = {} /\ RowsOf(docx_blocks, a) = {}
    /\ RowsOf(attachments, a) = {}
    /\ FtsOf(docx_blocks_fts, a) = EmptyBag /\ FtsOf(main_doc_fts, a) = EmptyBag
    /\ FtsOf(attachments_fts, a) = EmptyBag

ExpectedAttachments(a, name, c) ==
    SeqToSet(AttachmentRows(a, enumerate_attachments(ZipEntries(c),
                                                     identify_main_docx(name, c))))

ExtractionOf(a, c, v) ==
    /\ RowsOf(main_doc, a) = {MainDocRow(a, c, v)}
    /\ RowsOf(docx_blocks, a) = BlockRows(a, c, v)
    /\ FtsOf(docx_blocks_fts, a) = BlockFtsRows(a, c, v)
    /\ FtsOf(main_doc_fts, a) = FieldFtsRows(a, c, v)

AttachmentsOf(a, name, c) ==
    /\ RowsOf(attachments, a) = ExpectedAttachments(a, name, c)
    /\ FtsOf(attachments_fts, a) =
           SetToBag({ [archive_id |-> a, file_id |-> r.file_id,
                       display_name |-> r.display_name]
                      : r \in ExpectedAttachments(a, name, c) })

CompleteIngestion(r) ==
    \E v \in 1..2 :
        /\ ExtractionOf(r.archive_id, r.sha256, v)
        /\ AttachmentsOf(r.archive_id, r.original_name, r.sha256)

WorkerStep == UNCHANGED m_vars

----------------------------------------------------------------------------
(* C1: importing bytes whose fingerprint an Archive already carries, under  *)
(* any file name and whatever that Archive's status, is reported skipped    *)
(* and creates nothing; no two Archives ever share a fingerprint.           *)
UniqueFingerprint ==
    \A r1, r2 \in archives : r1.sha256 = r2.sha256 => r1 = r2

C1_SkipStep ==
    \A w \in Workers :
        ( /\ WorkerStep
          /\ wpc[w] = "loop"
          /\ wfile'[w] # NoFile
          /\ \E r \in archives : r.sha256 = wfile'[w].sha256 )
        => ( /\ outcome'[w] = "skipped"
             /\ wpc'[w] = "loop"
             /\ UNCHANGED <<db_vars, store, uuids>> )

C1_NoDuplicate == []UniqueFingerprint /\ [][C1_SkipStep]_vars

C1_Witness ==
    \E w \in Workers :
        /\ outcome[w] = "skipped"
        /\ wfile[w] # NoFile
        /\ \E r \in archives :
              /\ r.sha256 = wfile[w].sha256
              /\ r.original_name # wfile[w].original_name
              /\ r.status = "failed"

(* C2: an import that fails while persisting the bytes, inserting the       *)
(* Archive row, identifying, reading or parsing the Main Doc, enumerating   *)
(* attachments or writing and committing the rows leaves an Archive row     *)
(* with status failed and a non-empty error, and its stored bytes.          *)
C2_FailedStep ==
    \A w \in Workers :
        ( /\ WorkerStep
          /\ wpc[w] \in {"copy", "insert", "parse", "tx", "commit"}
          /\ outcome'[w] = "failed" )
        => ( /\ \E r \in archives' :
                  /\ r.archive_id = wid[w]
                  /\ r.status = "failed"
                  /\ r.error # ""
             /\ wid[w] \in store' )

C2_FailedIsRecorded == [][C2_FailedStep]_vars

(* C3: in every observable state an Archive carries no content or index    *)
(* row or all the rows of one complete ingestion; a processing or failed    *)
(* Archive carries none, and a completed Archive carries them all.          *)
C3_AllOrNothing ==
    \A r \in archives :
        /\ NoContent(r.archive_id) \/ CompleteIngestion(r)
        /\ r.status \in {"processing", "failed"} => NoContent(r.archive_id)
        /\ r.status = "completed" => CompleteIngestion(r)

(* C4: after every completed import, re-extract, delete_archive,            *)
(* create_annotation and delete_annotation, each Archive has one block      *)
(* index row per Block, four field index rows per Main Doc, one attachment  *)
(* index row per Attachment and one annotation index row per Annotation.    *)
IndexCounts(a) ==
    /\ BagCardinality(FtsOf(docx_blocks_fts, a)) = Cardinality(RowsOf(docx_blocks, a))
    /\ BagCardinality(FtsOf(main_doc_fts, a)) = 4 * Cardinality(RowsOf(main_doc, a))
    /\ BagCardinality(FtsOf(attachments_fts, a)) = Cardinality(RowsOf(attachments, a))
    /\ BagCardinality(FtsOf(annotations_fts, a)) = Cardinality(RowsOf(annotations, a))

C4_IndexInStep ==
    ( /\ mpc = "idle"
      /\ \/ mlast.op # "none"
         \/ \E w \in Workers : outcome[w] = "imported" )
    => \A a \in seen : IndexCounts(a)


(* C5 (as stated): byte-identical content ingested twice gives an           *)
(* attachment at the same depth, container and virtual path the same        *)
(* Attachment id.                                                           *)
SameTriple(x, y) ==
    /\ x.source_depth = y.source_depth
    /\ x.container_virtual_path = y.container_virtual_path
    /\ x.virtual_path = y.virtual_path

Reverse(s) == [ i \in 1..Len(s) |-> s[Len(s) + 1 - i] ]

OrderIndependent ==
    { x \in { ArchiveUuid(n) : n \in 1..(MaxOps + 1) }
            \X { f.original_name : f \in Files } \X { f.sha256 : f \in Files } :
        SeqToSet(AttachmentRows(x[1],
                     enumerate_attachments(Reverse(ZipEntries(x[3])),
                                           identify_main_docx(x[2], x[3]))))
        = ExpectedAttachments(x[1], x[2], x[3]) }

NoRowOf(a) ==
    /\ a \notin ArchiveIds
    /\ NoContent(a)
    /\ RowsOf(annotations, a) = {}
    /\ FtsOf(annotations_fts, a) = EmptyBag

C6_Returned ==
    (mpc = "idle" /\ mlast.op = "delete_archive") => NoRowOf(mlast.id)

C6_Together ==
    \A a \in ArchiveIds : a \notin Ids(archives') => NoRowOf(a)'

C6_DeleteRemovesAll == []C6_Returned /\ [][C6_Together]_vars

C6_Witness ==
    /\ mpc = "idle" /\ mlast.op = "delete_archive"
    /\ \E x \in ever_att : x.archive_id = mlast.id

(* C7: once re-extract has returned successfully the Archive's main_doc row, *)
(* its docx_blocks rows, its block index rows and its four field index rows *)
(* are exactly those of the extraction just made by the running extractor;  *)
(* no row of the previous extraction is left.                               *)
C7_ReextractReplaces ==
    (mpc = "idle" /\ mlast.op = "reextract")
    => /\ mlast.id \in ArchiveIds
       /\ ExtractionOf(mlast.id, Row(mlast.id).sha256, extractor)

C7_Witness ==
    /\ mpc = "idle" /\ mlast.op = "reextract"
    /\ \E b \in ever_blocks :
          /\ b.archive_id = mlast.id
          /\ \A r \in docx_blocks : r.archive_id = b.archive_id => r.block_id # b.block_id

(* C8 (as stated): an Archive is created processing and its status then     *)
(* changes only from processing to completed or from processing to failed.  *)
CreatedProcessing ==
    \A r \in archives' : r.archive_id \notin ArchiveIds => r.status = "processing"

StatusChanges(from, to, id) ==
    /\ \E r \in archives : r.archive_id = id /\ r.status = from
    /\ \E r \in archives' : r.archive_id = id /\ r.status = to

C8_OnlyFromProcessingStep ==
    /\ CreatedProcessing
    /\ \A id \in ArchiveIds : \A from, to \in {"processing", "completed", "failed"} :
          (from # to /\ StatusChanges(from, to, id))
          => (from = "processing" /\ to \in {"completed", "failed"})

C8_LifecycleStep ==
    /\ CreatedProcessing
    /\ \A id \in ArchiveIds : \A from, to \in {"processing", "completed", "failed"} :
          (from # to /\ StatusChanges(from, to, id))
          => \/ from = "processing" /\ to \in {"completed", "failed"}
             \/ from = "failed" /\ to = "completed"
                  /\ mpc = "rex_tx" /\ marg.archive_id = id
                  /\ mlast' = [op |-> "reextract", id |-> id]
             \/ from = "completed" /\ to = "failed"
                  /\ \E w \in Workers :
                        /\ wid[w] = id /\ wpc[w] \in {"parse", "tx", "commit"}
                        /\ outcome'[w] = "failed"

C8_NotProcessingAfterReturn ==
    \A r \in archives :
        r.status = "processing"
        => \E w \in Workers :
              wid[w] = r.archive_id /\ wpc[w] \in {"parse", "tx", "commit"}

C9_NoOrphans ==
    \A r \in main_doc \cup docx_blocks \cup attachments : r.archive_id \in ArchiveIds

C9_Witness ==
    \E w \in Workers :
        /\ wpc[w] = "commit"
        /\ wid[w] \in seen
        /\ wid[w] \notin ArchiveIds

(* C10: once re-extract has returned successfully, also on an Archive whose *)
(* import failed, the Archive is completed and carries the Main Doc, the    *)
(* Blocks, the Attachments of its ZIP and their index rows.                 *)
C10_ReextractRepeatsAll ==
    (mpc = "idle" /\ mlast.op = "reextract")
    => /\ mlast.id \in ArchiveIds
       /\ LET r == Row(mlast.id)
          IN  /\ r.status = "completed"
              /\ ExtractionOf(r.archive_id, r.sha256, extractor)
              /\ AttachmentsOf(r.archive_id, r.original_name, r.sha256)

----------------------------------------------------------------------------
(* importer.rs: import_zips_impl seen by itself, one call over a list of    *)
(* paths.  import_one_zip is taken by its result: Ok(row), the __SKIP__     *)
(* error of the dedup lookup, or another error.                             *)

MaxPaths == 3   \* length of the longest list of paths

(* A source path: the fingerprint of its bytes, whether it can be read, and *)
(* whether its name holds the text "__SKIP__" (error messages quote names). *)
Path(c, r, m) == [sha256 |-> c, readable |-> r, marker |-> m]
Paths == { Path("c1", TRUE, FALSE), Path("c2", TRUE, FALSE),
           Path("c1", FALSE, FALSE), Path("c2", TRUE, TRUE) }

RECURSIVE SeqsUpTo(_, _)
SeqsUpTo(S, n) ==
    IF n = 0 THEN { <<>> }
    ELSE LET shorter == SeqsUpTo(S, n - 1)
         IN  shorter \cup { Append(s, x) : s \in { t \in shorter : Len(t) = n - 1 },
                                           x \in S }

(* lines 126-134: the datastore is open, the counters are zero *)
InitBatch ==
    /\ InitLibrary
    /\ \E ps \in SeqsUpTo(Paths, MaxPaths) :
          batch = [paths |-> ps, idx |-> 0, imported |-> 0, skipped |-> 0,
                   failed |-> 0, archives |-> <<>>, sha256s |-> {},
                   visited |-> <<>>, counted |-> <<>>, existed |-> <<>>,
                   returned |-> FALSE]
    /\ fx = NoFx /\ hl = NoHl /\ sq = NoSq /\ zd = NoZd
    /\ wa = NoWa

(* line 137: the path the loop is at; enumerate() counts from 0 *)
NextPath == batch.paths[batch.idx + 1]
InLoop == batch # NoBatch /\ ~batch.returned /\ batch.idx < Len(batch.paths)
Visit(b) == [b EXCEPT !.idx = @ + 1, !.visited = Append(@, b.idx + 1)]

(* lines 140-143: Ok(row) *)
on_ok(b, row) ==
    [b EXCEPT !.imported = @ + 1, !.archives = Append(@, row),
              !.counted = Append(@, "imported")]

(* lines 146-150: an error whose text holds "__SKIP__" *)
on_skip(b) == [b EXCEPT !.skipped = @ + 1, !.counted = Append(@, "skipped")]

(* An error arm that would leave the call, as the ? operator does *)
on_failed_abort(b) ==
    [b EXCEPT !.failed = @ + 1, !.counted = Append(@, "failed"), !.returned = TRUE]

(* lines 151-153: any other error *)
on_failed(b) == [b EXCEPT !.failed = @ + 1, !.counted = Append(@, "failed")]

(* line 145: e.to_string().contains("__SKIP__") *)
is_skip(msg) == msg \in {"__SKIP__ exists", "failed: __SKIP__ name"}

(* Error text of a failure that quotes the path or an entry name *)
FailureText(p) == IF p.marker THEN "failed: __SKIP__ name" ELSE "failed"

on_err(b, msg) == IF is_skip(msg) THEN on_skip(b) ELSE on_failed(b)

(* import_one_zip returns Ok(row): the bytes are readable and new *)
import_zips_impl_ok ==
    /\ InLoop
    /\ NextPath.readable /\ NextPath.sha256 \notin batch.sha256s
    /\ batch' = [ on_ok(Visit(batch), [path |-> batch.idx + 1,
                                       sha256 |-> NextPath.sha256])
                  EXCEPT !.sha256s = @ \cup {NextPath.sha256},
                         !.existed = Append(@, FALSE) ]
    /\ UNCHANGED not_batch

(* import_one_zip returns the __SKIP__ error: the fingerprint is known *)
import_zips_impl_skip ==
    /\ InLoop
    /\ NextPath.readable /\ NextPath.sha256 \in batch.sha256s
    /\ batch' = [ on_err(Visit(batch), "__SKIP__ exists")
                  EXCEPT !.existed = Append(@, TRUE) ]
    /\ UNCHANGED not_batch

(* import_one_zip returns another error, before or after it inserted the    *)
(* archives row                                                             *)
import_zips_impl_err(inserted) ==
    /\ InLoop
    /\ ~NextPath.readable \/ NextPath.sha256 \notin batch.sha256s
    /\ inserted => NextPath.readable
    /\ batch' = [ on_err(Visit(batch), FailureText(NextPath))
                  EXCEPT !.sha256s = IF inserted THEN @ \cup {NextPath.sha256} ELSE @,
                         !.existed = Append(@, FALSE) ]

    /\ UNCHANGED not_batch

(* lines 158-176: the list is exhausted, Ok(ImportResult) *)
import_zips_impl_return ==
    /\ batch # NoBatch /\ ~batch.returned
    /\ batch.idx = Len(batch.paths)
    /\ batch' = [batch EXCEPT !.returned = TRUE]
    /\ UNCHANGED not_batch


NextBatch ==
    \/ import_zips_impl_ok
    \/ import_zips_impl_skip
    \/ \E inserted \in BOOLEAN : import_zips_impl_err(inserted)
    \/ import_zips_impl_return

SpecBatch == InitBatch /\ [][NextBatch]_vars

(* C11: the batch import visits every path exactly once in list order, no   *)
(* failure of a file ends the batch, and the summary it returns has         *)
(* imported + skipped + failed = n and one Archive summary per imported     *)
(* file.                                                                    *)
C11_BatchSummary ==
    /\ batch.visited = [ i \in 1..batch.idx |-> i ]
    /\ batch.imported + batch.skipped + batch.failed = batch.idx
    /\ Len(batch.archives) = batch.imported
    /\ \A i, j \in 1..Len(batch.archives) :
          i < j => batch.archives[i].path < batch.archives[j].path
    /\ batch.returned =>
          /\ batch.idx = Len(batch.paths)
          /\ batch.imported + batch.skipped + batch.failed = Len(batch.paths)

C11_Witness ==
    /\ batch.returned
    /\ Len(batch.paths) = MaxPaths
    /\ batch.failed > 0 /\ batch.imported > 0 /\ batch.skipped > 0
    /\ \E i \in 1..Len(batch.paths) : i < batch.archives[1].path

----------------------------------------------------------------------------
(* docx.rs: extract_fields_and_map, one call over the blocks parse_main_docx *)
(* built, one step per block of its loop.                                   *)

MaxBlocks == 4   \* length of the longest block sequence

(* str::trim on the paragraph texts of the model *)
Trim(text) ==
    CASE text = " "   -> ""
      [] text = " x " -> "x"
      [] OTHER        -> text

(* A paragraph as the two regexes see it: its raw text, the text before the *)
(* first label, then for each match of re_label_any (lines 402-405) the     *)
(* canonical field of the label (lines 449-455) and the cleaned text up to  *)
(* the next label (lines 443-446).                                          *)
Hit(key, rest) == [key |-> key, rest |-> rest]
Labelled(text, lead, hits) == [text |-> text, lead |-> lead, hits |-> hits]
Plain(text) == [text |-> text, lead |-> Trim(text), hits |-> <<>>]
Paragraph ==
    { Labelled("number: A-001 title: T issued: D", "",
               << Hit("instruction_no", "A-001"), Hit("title", "T"),
                  Hit("issued_at", "D") >>),
      Labelled("title: T", "", << Hit("title", "T") >>),
      Labelled("see title: T2", "see", << Hit("title", "T2") >>),
      Labelled("content: c1", "", << Hit("content", "c1") >>),
      Labelled("title:", "", << Hit("title", "") >>),
      Plain(" x "),
      Plain("y"),
      Plain(" ") }

(* re_label_line (lines 406-409): a number, title or issued-at label at the *)
(* start of the trimmed text.  Every such text also matches re_label_any.   *)
re_label_line(b) ==
    /\ b.hits # <<>>
    /\ Trim(b.lead) = ""
    /\ b.hits[1].key \in {"instruction_no", "title", "issued_at"}

(* parse_main_docx, lines 115-119: block ids p:000001, p:000002, ... *)
Blocks(ps) == [ i \in 1..Len(ps) |-> [block_id |-> BlockId(i), text |-> ps[i].text,
                                      lead |-> ps[i].lead, hits |-> ps[i].hits] ]

None == "None"

(* lines 411-426: the locals before the loop *)
FxStart(blocks) ==
    [ blocks |-> blocks, i |-> 0, done |-> FALSE,
      instruction_no |-> "", title |-> "", issued_at |-> "",
      map_instruction_no |-> None, map_title |-> None, map_issued_at |-> None,
      content_anchor |-> None, content_block_ids |-> <<>>, content_lines |-> <<>>,
      st |-> "Seeking", start_idx |-> 0,
      pending_single |-> None, pending_block |-> None ]

InitFields ==
    /\ InitLibrary /\ fk_default
    /\ batch = NoBatch /\ hl = NoHl /\ sq = NoSq /\ zd = NoZd
    /\ wa = NoWa
    /\ \E ps \in SeqsUpTo(Paragraph, MaxBlocks) : fx = FxStart(Blocks(ps))

(* lines 457-486: a number, title or issued-at label *)
header_hit(f, field, map, rest, b) ==
    IF f[field] # "" THEN f
    ELSE IF rest = ""
         THEN [f EXCEPT !.pending_single = field, !.pending_block = b.block_id]
         ELSE [f EXCEPT ![field] = rest, ![map] = b.block_id]

(* lines 487-497: a content label *)
content_hit(f, rest, b, i) ==
    LET f1 == IF f.content_anchor = None
              THEN [f EXCEPT !.content_anchor = b.block_id] ELSE f
        f2 == IF rest # ""
              THEN [f1 EXCEPT !.content_block_ids = Append(@, b.block_id),
                              !.content_lines = Append(@, rest)]
              ELSE f1
    IN  [f2 EXCEPT !.st = "Collecting", !.start_idx = i]

(* lines 442-499: the matches of one block, left to right *)
RECURSIVE apply_hits(_, _, _, _)
apply_hits(f, hits, b, i) ==
    IF hits = <<>> THEN f
    ELSE LET h == Head(hits)
             g == CASE h.key = "instruction_no" ->
                         header_hit(f, "instruction_no", "map_instruction_no", h.rest, b)
                    [] h.key = "title" ->
                         header_hit(f, "title", "map_title", h.rest, b)
                    [] h.key = "issued_at" ->
                         header_hit(f, "issued_at", "map_issued_at", h.rest, b)
                    [] h.key = "content" -> content_hit(f, h.rest, b, i)
                    [] OTHER -> f
         IN  apply_hits(g, Tail(hits), b, i)


(* line 551: content_lines.join("\n") *)
RECURSIVE Join(_)
Join(lines) ==
    IF lines = <<>> THEN ""
    ELSE IF Len(lines) = 1 THEN lines[1]
    ELSE lines[1] \o "\n" \o Join(Tail(lines))

FxRunning == ~fx.done /\ fx.i < Len(fx.blocks)
FxBlock == fx.blocks[fx.i + 1]
FxNext(f) == [f EXCEPT !.i = @ + 1]
FieldOf(f, canonical) == f[canonical]
MapOf(canonical) == "map_" \o canonical

(* line 504-531: the pending label takes this block's text *)
PendingTakes(f, b) ==
    /\ f.pending_single # None
    /\ Trim(b.text) # ""
    /\ FieldOf(f, f.pending_single) = ""

(* lines 438-502: a block in which re_label_any matches *)
extract_labelled ==
    /\ FxRunning
    /\ FxBlock.hits # <<>>
    /\ fx' = FxNext(apply_hits([fx EXCEPT !.pending_single = None, !.pending_block = None],
                               FxBlock.hits, FxBlock, fx.i))
    /\ UNCHANGED not_fx

(* lines 504-531, the arms that end in continue *)
extract_pending ==
    /\ FxRunning
    /\ FxBlock.hits = <<>>
    /\ PendingTakes(fx, FxBlock)
    /\ fx' = FxNext([fx EXCEPT ![fx.pending_single] = Trim(FxBlock.text),
                               ![MapOf(fx.pending_single)] = fx.pending_block,
                               !.pending_single = None, !.pending_block = None])
    /\ UNCHANGED not_fx

(* lines 504 and 533-534: pending_single.take(), then State::Seeking *)
extract_seeking ==
    /\ FxRunning
    /\ FxBlock.hits = <<>>
    /\ ~PendingTakes(fx, FxBlock)
    /\ fx.st = "Seeking"
    /\ fx' = FxNext([fx EXCEPT !.pending_single = None, !.pending_block = None])
    /\ UNCHANGED not_fx

collect_trimmed(f, b, i) ==
    IF i <= f.start_idx THEN FxNext(f)
    ELSE IF re_label_line(b) THEN [f EXCEPT !.i = Len(f.blocks)]
    ELSE IF Trim(b.text) # ""
         THEN FxNext([f EXCEPT !.content_block_ids = Append(@, b.block_id),
                               !.content_lines = Append(@, Trim(b.text))])
         ELSE FxNext(f)

(* lines 535-547 *)
collect(f, b, i) ==
    IF i <= f.start_idx THEN FxNext(f)
    ELSE IF re_label_line(b) THEN [f EXCEPT !.i = Len(f.blocks)]
    ELSE IF Trim(b.text) # ""
         THEN FxNext([f EXCEPT !.content_block_ids = Append(@, b.block_id),
                               !.content_lines = Append(@, b.text)])
         ELSE FxNext(f)

(* lines 504 and 535-547: pending_single.take(), then State::Collecting *)
extract_collecting ==
    /\ FxRunning
    /\ FxBlock.hits = <<>>
    /\ ~PendingTakes(fx, FxBlock)
    /\ fx.st = "Collecting"
    /\ fx' = collect([fx EXCEPT !.pending_single = None, !.pending_block = None],
                     FxBlock, fx.i)
    /\ UNCHANGED not_fx

(* lines 551-566: the returned tuple; map.content is content_block_ids *)
extract_return ==
    /\ ~fx.done
    /\ fx.i = Len(fx.blocks)
    /\ fx' = [fx EXCEPT !.done = TRUE]
    /\ UNCHANGED not_fx

NextFields ==
    \/ extract_labelled
    \/ extract_pending
    \/ extract_seeking
    \/ extract_collecting
    \/ extract_return

SpecFields == InitFields /\ [][NextFields]_vars

content == Join(fx.content_lines)


----------------------------------------------------------------------------
(* Vocabulary of the claims about extract_fields_and_map *)

HeaderKeys == {"instruction_no", "title", "issued_at"}

(* the matches of the label `key` in the blocks before block n *)
HitsBefore(blocks, n, key) ==
    { jm \in (1..(n - 1)) \X (1..3) :
        /\ jm[2] <= Len(blocks[jm[1]].hits)
        /\ blocks[jm[1]].hits[jm[2]].key = key }

(* Block n is the content-label block of a well-formed document: before it  *)
(* only labelled blocks in which each header label occurs once, with a      *)
(* value; in it the content label alone, with a remainder; after it only    *)
(* unlabelled non-empty blocks.                                             *)
WellFormedAt(blocks, n) ==
    /\ n \in 1..Len(blocks)
    /\ Len(blocks[n].hits) = 1
    /\ blocks[n].hits[1].key = "content"
    /\ blocks[n].hits[1].rest # ""
    /\ \A j \in 1..(n - 1) : blocks[j].hits # <<>>
    /\ HitsBefore(blocks, n, "content") = {}
    /\ \A key \in HeaderKeys :
          /\ Cardinality(HitsBefore(blocks, n, key)) = 1
          /\ \A jm \in HitsBefore(blocks, n, key) :
                blocks[jm[1]].hits[jm[2]].rest # ""
    /\ \A j \in (n + 1)..Len(blocks) :
          blocks[j].hits = <<>> /\ Trim(blocks[j].text) # ""

ValueBefore(blocks, n, key) ==
    LET jm == CHOOSE x \in HitsBefore(blocks, n, key) : TRUE
    IN  blocks[jm[1]].hits[jm[2]].rest

(* C12: on a well-formed document (each header label once with a value,     *)
(* then the content label with a remainder, then k unlabelled non-empty     *)
(* blocks) the extractor returns each header value, the body is the         *)
(* remainder and the k block texts joined by newlines, and the content      *)
(* provenance list holds the k+1 block ids in document order.               *)
C12_WellFormedDocument ==
    \A n \in 1..MaxBlocks + 1 :
        (fx.done /\ WellFormedAt(fx.blocks, n)) =>
            /\ \A key \in HeaderKeys : fx[key] = ValueBefore(fx.blocks, n, key)
            /\ content = Join(<< fx.blocks[n].hits[1].rest >>
                              \o [ j \in 1..(Len(fx.blocks) - n) |-> fx.blocks[n + j].text ])
            /\ fx.content_block_ids = [ j \in 1..(Len(fx.blocks) - n + 1) |-> BlockId(n + j - 1) ]

(* the call returned on a well-formed document with two blocks after the    *)
(* content label                                                            *)
C12_Witness ==
    /\ fx.done
    /\ \E n \in 1..MaxBlocks : WellFormedAt(fx.blocks, n) /\ Len(fx.blocks) = n + 2
    /\ Len(fx.content_block_ids) = 3


HasContentLabel(b) == \E m \in 1..Len(b.hits) : b.hits[m].key = "content"
InList(x, list) == \E m \in 1..Len(list) : list[m] = x

(* C17: once the extractor is collecting (a content label was seen in an    *)
(* earlier block), a later block that starts with a number, title or        *)
(* issued-at label ends the collection: neither that block nor any block    *)
(* after it is in the content provenance list (nor, then, in the body).     *)
C17_HeaderEndsCollection ==
    \A s \in 1..Len(fx.blocks), j \in 1..Len(fx.blocks), m \in 1..Len(fx.blocks) :
        (/\ s < j /\ j <= m
         /\ HasContentLabel(fx.blocks[s])
         /\ re_label_line(fx.blocks[j]))
        => ~InList(BlockId(m), fx.content_block_ids)


Unlabelled(b) == b.hits = <<>>
Empty(b) == Unlabelled(b) /\ Trim(b.text) = ""

(* block j is a lone header label without a value, and no earlier block     *)
(* names that label, so its field is empty when block j is read             *)
PendingAt(blocks, j, key) ==
    /\ blocks[j].hits = << Hit(key, "") >>
    /\ HitsBefore(blocks, j, key) = {}

(* C18: a number, title or issued-at label with an empty remainder, met     *)
(* while its field is empty, gives the field the trimmed text of the next   *)
(* non-empty block, also when empty blocks lie between the two, provided    *)
(* no labelled block comes first.                                           *)
C18_PendingLabelResolved ==
    \A key \in HeaderKeys :
      \A j \in 1..Len(fx.blocks), m \in 1..Len(fx.blocks) :
        (/\ j < m /\ m <= fx.i
         /\ PendingAt(fx.blocks, j, key)
         /\ \A l \in (j + 1)..(m - 1) : Empty(fx.blocks[l])
         /\ Unlabelled(fx.blocks[m]) /\ ~Empty(fx.blocks[m]))
        => fx[key] = Trim(fx.blocks[m].text)

----------------------------------------------------------------------------
(* search.rs: compute_highlights_utf16.  A string is the sequence of its    *)
(* characters; a character has a length in UTF-8 bytes and a length in      *)
(* UTF-16 code units.                                                       *)

MaxText == 3    \* characters in the longest display text
MaxQuery == 2   \* characters in the longest query

(* an ASCII letter, a CJK character, a character outside the Basic          *)
(* Multilingual Plane, a space                                              *)
Char == {"a", "zh", "emoji", " "}
len_utf8(ch) == CASE ch = "zh" -> 3 [] ch = "emoji" -> 4 [] OTHER -> 1
len_utf16(ch) == IF ch = "emoji" THEN 2 ELSE 1
is_whitespace(ch) == ch = " "

(* str::len, in bytes, and str::encode_utf16().count() *)
RECURSIVE len(_)
len(str) == IF str = <<>> THEN 0 ELSE len_utf8(Head(str)) + len(Tail(str))
RECURSIVE encode_utf16_count(_)
encode_utf16_count(str) ==
    IF str = <<>> THEN 0 ELSE len_utf16(Head(str)) + encode_utf16_count(Tail(str))

(* str::trim and split_whitespace().collect::<String>() *)
RECURSIVE trim_start(_)
trim_start(str) ==
    IF str # <<>> /\ is_whitespace(Head(str)) THEN trim_start(Tail(str)) ELSE str
RECURSIVE trim_end(_)
trim_end(str) ==
    IF str # <<>> /\ is_whitespace(str[Len(str)])
    THEN trim_end(SubSeq(str, 1, Len(str) - 1)) ELSE str
trim(str) == trim_end(trim_start(str))
RECURSIVE remove_whitespace(_)
remove_whitespace(str) ==
    IF str = <<>> THEN <<>>
    ELSE IF is_whitespace(Head(str)) THEN remove_whitespace(Tail(str))
    ELSE <<Head(str)>> \o remove_whitespace(Tail(str))

(* lines 103-113 *)
char_ngrams(text, n) ==
    IF Len(text) < n THEN {}
    ELSE { SubSeq(text, i, i + n - 1) : i \in 1..(Len(text) - n + 1) }

(* Jieba::cut is not part of this repository: it splits the text into       *)
(* consecutive pieces, here after the positions in `cut`.  Lines 94-101     *)
(* trim the pieces and drop the empty ones.                                 *)
Cuts(text) == SUBSET (1..(Len(text) - 1))
RECURSIVE Pieces(_, _, _)
Pieces(text, cut, from) ==
    IF from > Len(text) THEN {}
    ELSE LET ends == { e \in from..Len(text) : e \in cut \/ e = Len(text) }
             to == CHOOSE e \in ends : \A e2 \in ends : e <= e2
         IN  {SubSeq(text, from, to)} \cup Pieces(text, cut, to + 1)
jieba_tokens(text, cut) ==
    { trim(piece) : piece \in Pieces(text, cut, 1) } \ { <<>> }

(* lines 640-651: the needles; sorted and deduplicated, a set *)
Needles(q, cut) ==
    { n \in {remove_whitespace(q)} \cup jieba_tokens(q, cut)
              \cup char_ngrams(q, 2) \cup char_ngrams(q, 3) :
        trim(n) # <<>> }

(* str::match_indices: the byte offsets of the matches of needle n in text, *)
(* left to right without overlap, from character position k on              *)
RECURSIVE match_indices(_, _, _)
match_indices(text, n, k) ==
    IF k + Len(n) - 1 > Len(text) THEN {}
    ELSE IF SubSeq(text, k, k + Len(n) - 1) = n
         THEN {len(SubSeq(text, 1, k - 1))} \cup match_indices(text, n, k + Len(n))
         ELSE match_indices(text, n, k + 1)

(* lines 667-691; k is the position of the loop over char_indices.  The     *)
(* Option<usize> is a set: empty for None, {n} for Some(n).                 *)
RECURSIVE byte_to_utf16_from(_, _, _, _, _)
byte_to_utf16_from(text, byte_idx, k, utf16, last_byte) ==
    IF k > Len(text)
    THEN IF byte_idx = len(text) THEN {encode_utf16_count(text)}
         ELSE IF last_byte < byte_idx THEN {} ELSE {utf16}
    ELSE LET b == len(SubSeq(text, 1, k - 1))
         IN  IF b >= byte_idx THEN {utf16}
             ELSE byte_to_utf16_from(text, byte_idx, k + 1,
                                     utf16 + len_utf16(text[k]), b)
byte_to_utf16_bytes(text, byte_idx) ==
    IF byte_idx > len(text) THEN {} ELSE {byte_idx}

byte_to_utf16(text, byte_idx) ==
    IF byte_idx > len(text) THEN {}
    ELSE byte_to_utf16_from(text, byte_idx, 1, 0, 0)

Range(start, end) == [start |-> start, end |-> end]

(* lines 653-663: the ranges of all matches of all needles *)
MatchRanges(text, needles) ==
    UNION { UNION { { r \in { Range(us, ue) :
                                us \in byte_to_utf16(text, byte_start),
                                ue \in byte_to_utf16(text, byte_start + len(n)) } :
                      r.start < r.end }
                    : byte_start \in match_indices(text, n, 1) }
            : n \in needles }

(* lines 693-711: sort by (start, end), merge what overlaps or touches,     *)
(* keep the first max ranges                                                *)
RECURSIVE SortRanges(_)
SortRanges(ranges) ==
    IF ranges = {} THEN <<>>
    ELSE LET first == CHOOSE r \in ranges : \A r2 \in ranges :
                          \/ r.start < r2.start
                          \/ r.start = r2.start /\ r.end <= r2.end
         IN  <<first>> \o SortRanges(ranges \ {first})
RECURSIVE merge_ranges(_, _, _)
merge_ranges(cur, rest, merged) ==
    IF rest = <<>> THEN Append(merged, cur)
    ELSE LET r == Head(rest)
         IN  IF r.start <= cur.end
             THEN merge_ranges([cur EXCEPT !.end = IF r.end > @ THEN r.end ELSE @],
                               Tail(rest), merged)
             ELSE merge_ranges(r, Tail(rest), Append(merged, cur))
normalize_ranges(ranges, max) ==
    IF ranges = {} THEN <<>>
    ELSE LET sorted == SortRanges(ranges)
             merged == merge_ranges(Head(sorted), Tail(sorted), <<>>)
         IN  SubSeq(merged, 1, IF Len(merged) < max THEN Len(merged) ELSE max)

(* lines 634-665, with the segmentation Jieba gives the query *)
compute_highlights_utf16(text, query, cut) ==
    LET q == trim(query)
    IN  IF q = <<>> \/ text = <<>> THEN <<>>
        ELSE normalize_ranges(MatchRanges(text, Needles(q, cut)), 20)

Strings(n) == SeqsUpTo(Char, n)

InitHighlight ==
    /\ InitLibrary /\ fk_default
    /\ batch = NoBatch /\ fx = NoFx /\ sq = NoSq /\ zd = NoZd
    /\ wa = NoWa
    /\ \E text \in Strings(MaxText), query \in Strings(MaxQuery) :
          hl = [text |-> text, query |-> query, pc |-> "start", done |-> FALSE]

(* lines 635-638: nothing to look for *)
highlights_empty ==
    /\ ~hl.done /\ hl.pc = "start"
    /\ trim(hl.query) = <<>> \/ hl.text = <<>>
    /\ hl' = [text |-> hl.text, query |-> hl.query, pc |-> "returned", done |-> TRUE,
              highlights |-> <<>>]
    /\ UNCHANGED not_hl

(* lines 639-651 *)
highlights_needles ==
    /\ ~hl.done /\ hl.pc = "start"
    /\ ~(trim(hl.query) = <<>> \/ hl.text = <<>>)
    /\ \E cut \in Cuts(trim(hl.query)) :
          hl' = [text |-> hl.text, query |-> hl.query, pc |-> "needles", done |-> FALSE,
                 cut |-> cut, needles |-> Needles(trim(hl.query), cut)]
    /\ UNCHANGED not_hl

(* lines 653-664 *)
highlights_return ==
    /\ ~hl.done /\ hl.pc = "needles"
    /\ hl' = [text |-> hl.text, query |-> hl.query, pc |-> "returned", done |-> TRUE,
              cut |-> hl.cut, needles |-> hl.needles,
              highlights |-> normalize_ranges(MatchRanges(hl.text, hl.needles), 20)]
    /\ UNCHANGED not_hl

NextHighlight ==
    \/ highlights_empty
    \/ highlights_needles
    \/ highlights_return

SpecHighlight == InitHighlight /\ [][NextHighlight]_vars


----------------------------------------------------------------------------
(* Vocabulary of the claims about compute_highlights_utf16 *)

(* the character positions at which the non-empty string n occurs in text *)
Occurrences(text, n) ==
    { k \in 1..Len(text) : /\ n # <<>>
                           /\ k + Len(n) - 1 <= Len(text)
                           /\ SubSeq(text, k, k + Len(n) - 1) = n }

HlNeedles == IF "needles" \in DOMAIN hl THEN hl.needles ELSE {}

(* every occurrence of every needle lies in the `width` characters from k *)
OnlyInside(text, needles, k, width) ==
    \A n \in needles : \A k2 \in Occurrences(text, n) :
        k <= k2 /\ k2 + Len(n) <= k + width

(* the text holds `str` once, at k, and no needle anywhere else *)
ContainsOnceAt(str, k) ==
    /\ Occurrences(hl.text, str) = {k}
    /\ OnlyInside(hl.text, HlNeedles, k, Len(str))

----------------------------------------------------------------------------
(* search.rs: search_paged_impl, one call over a library whose FTS tables   *)
(* hold the rows below.  The rows a MATCH returns are an input of the call. *)

MaxRows == 2   \* rows of one FTS table that match the query

(* SearchResult, lines 44-79, with the fields the merge reads *)
DocxBlock(archive_id, block_id, block_text) ==
    [kind |-> "docx_block", archive_id |-> archive_id, block_id |-> block_id,
     block_text |-> block_text, highlights |-> <<>>]
MainDocField(archive_id, field_name, source_text) ==
    [kind |-> "main_doc_field", archive_id |-> archive_id, field_name |-> field_name,
     source_text |-> source_text, highlights |-> <<>>,
     best_block_id |-> {}, best_block_highlights |-> {}]
Annotation(archive_id, annotation_id, text) ==
    [kind |-> "annotation", archive_id |-> archive_id, annotation_id |-> annotation_id,
     content |-> text, highlights |-> <<>>]
AttachmentName(archive_id, file_id, display_name) ==
    [kind |-> "attachment_name", archive_id |-> archive_id, file_id |-> file_id,
     display_name |-> display_name, highlights |-> <<>>]

(* The tables of the library, in rowid order: two archives A1 and A2.       *)
(* main_doc.field_block_map_json gives A1 a content list of four blocks, A2 *)
(* has none.  attachments.file_type is read through the join of line 523,   *)
(* archives.zip_date by filter_archives_by_date, docx_blocks.text by        *)
(* pick_best_content_block.                                                 *)
docx_blocks_fts_rows ==
    << DocxBlock("A1", BlockId(1), <<"zh">>),
       DocxBlock("A1", BlockId(2), <<"zh", "a", "zh">>),
       DocxBlock("A2", BlockId(1), <<"a", "zh">>) >>
main_doc_fts_rows ==
    << MainDocField("A1", "content", <<"zh">>),
       MainDocField("A1", "title", <<"zh", "a", "zh">>),
       MainDocField("A1", "issued_at", <<"zh", "a", "zh">>),
       MainDocField("A2", "content", <<"zh", "zh">>),
       MainDocField("A2", "instruction_no", <<"zh">>) >>
annotations_fts_rows ==
    << Annotation("A1", "n1", <<"zh">>), Annotation("A2", "n2", <<"a", "zh">>) >>
attachments_fts_rows ==
    << AttachmentName("A1", "f1", <<"zh", "a">>), AttachmentName("A1", "f2", <<"zh">>),
       AttachmentName("A2", "f3", <<"a", "zh">>) >>
file_type_of == [f1 |-> "pdf", f2 |-> "image", f3 |-> "pdf"]
main_doc_content_ids ==
    [A1 |-> << BlockId(1), BlockId(3), BlockId(4), BlockId(5) >>, A2 |-> <<>>]
docx_blocks_text ==
    [A1 |-> << <<"zh">>, <<"zh", "a", "zh">>, <<"zh", "emoji", "zh">>, <<"zh", "zh">>,
               <<"a", "a", "zh">> >>,
     A2 |-> << <<"a", "zh">> >>]
archives_zip_date == [A1 |-> 10, A2 |-> 20]

(* Option<T> as a set: {} is None, {x} is Some(x) *)
unwrap_or(opt, default) == IF opt = {} THEN default ELSE CHOOSE x \in opt : TRUE

(* the rows of a table at the positions in `at`, in table order *)
RECURSIVE RowsAt(_, _, _)
RowsAt(rows, at, i) ==
    IF i > Len(rows) THEN <<>>
    ELSE (IF i \in at THEN << rows[i] >> ELSE <<>>) \o RowsAt(rows, at, i + 1)
Matching(rows) ==
    { RowsAt(rows, at, 1) : at \in { s \in SUBSET (1..Len(rows)) : Cardinality(s) <= MaxRows } }

(* page requests: the defaults, pages inside the short lists of the model,  *)
(* and values at and beyond the ceilings                                    *)
Page(limit, offset) == [limit |-> limit, offset |-> offset]
Pages ==
    { Page({}, {}), Page({0}, {0}), Page({1}, {0}), Page({2}, {1}), Page({1}, {3}),
      Page({201}, {0}), Page({50}, {4950}), Page({200}, {20001}) }

SearchRequest ==
    [ query : { <<"zh">>, <<" ">>, <<"zh", "a">> },
      page : Pages,
      file_types : { {}, {{"pdf"}}, {{"docx_main", "annotation"}} },
      date_from : { {}, {15} },
      date_to : { {}, {15} } ]

(* lines 390-403: SELECT archive_id FROM archives WHERE zip_date BETWEEN *)
filter_archives_by_date(from, to) ==
    IF from = {} /\ to = {} THEN {}
    ELSE { a \in DOMAIN archives_zip_date :
             /\ \A f \in from : f <= archives_zip_date[a]
             /\ \A t \in to : archives_zip_date[a] <= t }

(* lines 190-196: Some(set) when a bound is given, else None *)
allowed_archives_set(req) ==
    IF req.date_from # {} \/ req.date_to # {}
    THEN { filter_archives_by_date(req.date_from, req.date_to) } ELSE {}

Take(rows, n) == SubSeq(rows, 1, IF Len(rows) < n THEN Len(rows) ELSE n)
RECURSIVE Retain(_, _)
Retain(rows, keep) ==
    IF rows = <<>> THEN <<>>
    ELSE (IF Head(rows) \in keep THEN << Head(rows) >> ELSE <<>>) \o Retain(Tail(rows), keep)
Elems(rows) == { rows[i] : i \in 1..Len(rows) }
InArchives_all(rows, allowed_archives) == Elems(rows)

InArchives(rows, allowed_archives) ==

    IF allowed_archives = {} THEN Elems(rows)
    ELSE { r \in Elems(rows) : r.archive_id \in unwrap_or(allowed_archives, {}) }

(* lines 405-439 and 441-477: LIMIT in the statement, the archive filter    *)
(* on the rows read                                                         *)
query_docx_blocks(matching, limit, allowed_archives) ==
    Take(Retain(Take(matching, limit), InArchives(matching, allowed_archives)), limit)
query_main_doc_fields(matching, limit, allowed_archives) ==
    Take(Retain(Take(matching, limit), InArchives(matching, allowed_archives)), limit)

(* lines 479-559: the type and archive filters are in the statement *)
query_attachment_names(matching, limit, allowed_archives, want_types) ==
    LET attachment_types == unwrap_or(want_types, {}) \ {"docx_main"}
        typed == IF want_types = {} THEN Elems(matching)
                 ELSE { r \in Elems(matching) : file_type_of[r.file_id] \in attachment_types }
    IN  IF want_types # {} /\ attachment_types = {} THEN <<>>
        ELSE IF allowed_archives = {{}} THEN <<>>
        ELSE Take(Retain(matching, typed \cap InArchives(matching, allowed_archives)), limit)

(* lines 561-632 *)
query_annotations(matching, limit, allowed_archives, want_types) ==
    IF want_types # {} /\ "annotation" \notin unwrap_or(want_types, {}) THEN <<>>
    ELSE IF allowed_archives = {{}} THEN <<>>
    ELSE Take(Retain(matching, InArchives(matching, allowed_archives)), limit)

(* lines 121-139: the tokens joined by OR; empty when the query is blank *)
build_match_query(query, cut) ==
    LET q == trim(query)
    IN  IF q = <<>> THEN {}
        ELSE { t \in jieba_tokens(q, cut) \cup char_ngrams(q, 2) \cup char_ngrams(q, 3) :
                 trim(t) # <<>> }


TextOf(r) ==
    CASE r.kind = "docx_block" -> r.block_text
      [] r.kind = "main_doc_field" -> r.source_text
      [] r.kind = "annotation" -> r.content
      [] r.kind = "attachment_name" -> r.display_name

(* lines 212-227 and 271: every hit gets the highlights of its text *)
with_highlights(results, query, cut) ==
    [ i \in 1..Len(results) |->
        [results[i] EXCEPT !.highlights = compute_highlights_utf16(TextOf(results[i]), query, cut)] ]

(* lines 230-247: the archives whose content list is not empty *)
content_block_map == { a \in DOMAIN main_doc_content_ids : main_doc_content_ids[a] # <<>> }

(* lines 250-255 *)
docx_hit_blocks(results_docx) ==
    { << r.archive_id, r.block_id >> : r \in Elems(results_docx) }

drops_nothing(r, results_docx) == FALSE

(* lines 272-285: a content hit whose archive has a hit block in its        *)
(* content list                                                             *)
has_overlap(r, results_docx) ==
    /\ r.field_name = "content"
    /\ r.archive_id \in content_block_map
    /\ \E bid \in Elems(main_doc_content_ids[r.archive_id]) :
          << r.archive_id, bid >> \in docx_hit_blocks(results_docx)

(* lines 256-265: the tokens the blocks are scored by *)
query_tokens(query, cut) ==
    { t \in jieba_tokens(trim(query), cut) \cup char_ngrams(trim(query), 2)
              \cup char_ngrams(trim(query), 3) :
        trim(t) # <<>> }

(* lines 722-732: the rows of docx_blocks for the ids of the content list,  *)
(* in list order; an id without a row is left out                           *)
RECURSIVE block_texts(_, _)
block_texts(archive_id, content_block_ids) ==
    IF content_block_ids = <<>> THEN <<>>
    ELSE LET bid == Head(content_block_ids)
             rows == { i \in 1..Len(docx_blocks_text[archive_id]) : BlockId(i) = bid }
         IN  [ k \in 1..Cardinality(rows) |->
                 [block_id |-> bid,
                  text |-> docx_blocks_text[archive_id][CHOOSE i \in rows : TRUE]] ]
             \o block_texts(archive_id, Tail(content_block_ids))

(* lines 739-745: text.matches(t).count() summed over the tokens *)
RECURSIVE score(_, _)
score(text, tokens) ==
    IF tokens = {} THEN 0
    ELSE LET t == CHOOSE x \in tokens : TRUE
         IN  (IF t = <<>> THEN 0 ELSE Cardinality(match_indices(text, t, 1)))
             + score(text, tokens \ {t})

replaces_on_tie(s, best) == best = {} \/ \E b \in best : s >= b.score

(* line 746: best.map(|b| score > b.2).unwrap_or(true) *)
replaces_best(s, best) == best = {} \/ \E b \in best : s > b.score

(* lines 737-750 *)
RECURSIVE best_of(_, _, _)
best_of(texts, tokens, best) ==
    IF texts = <<>> THEN best
    ELSE LET s == score(Head(texts).text, tokens)
         IN  best_of(Tail(texts), tokens,
                     IF replaces_best(s, best)
                     THEN { [block_id |-> Head(texts).block_id,
                             text |-> Head(texts).text, score |-> s] }
                     ELSE best)

(* lines 713-751 *)
pick_best_content_block(archive_id, content_block_ids, tokens) ==
    IF content_block_ids = <<>> THEN {}
    ELSE LET texts == block_texts(archive_id, content_block_ids)
         IN  IF texts = <<>> THEN {}
             ELSE { [block_id |-> b.block_id, text |-> b.text] :
                    b \in best_of(texts, tokens, {}) }

(* lines 293-301: the best block of a content hit that stays *)
with_best_block(r, query, cut) ==
    IF r.field_name = "content" /\ r.archive_id \in content_block_map
    THEN LET content_ids == main_doc_content_ids[r.archive_id]
             picked == pick_best_content_block(r.archive_id, content_ids,
                                               query_tokens(query, cut))
         IN  IF picked # {}
             THEN [r EXCEPT !.best_block_id = { b.block_id : b \in picked },
                            !.best_block_highlights =
                                { compute_highlights_utf16(b.text, query, cut) : b \in picked }]
             ELSE [r EXCEPT !.best_block_id = { Head(content_ids) }]
    ELSE r

(* lines 267-307 *)
filtered_field_results(results_field, results_docx, query, cut) ==
    LET kept == Retain(results_field,
                       { r \in Elems(results_field) : ~has_overlap(r, results_docx) })
    IN  [ i \in 1..Len(kept) |-> with_best_block(kept[i], query, cut) ]

(* lines 310-314 *)
retain_docx(results, want_types) ==
    IF want_types # {} /\ "docx_main" \notin unwrap_or(want_types, {}) THEN <<>> ELSE results

(* lines 361-388 *)
kind_rank(r) ==
    CASE r.kind = "docx_block" -> 0
      [] r.kind = "main_doc_field" -> 1
      [] r.kind = "annotation" -> 2
      [] r.kind = "attachment_name" -> 3
RECURSIVE SumWidths(_)
SumWidths(hs) ==
    IF hs = <<>> THEN 0 ELSE (Head(hs).end - Head(hs).start) + SumWidths(Tail(hs))
highlight_score(r) == SumWidths(r.highlights)
field_rank(field_name) ==
    CASE field_name = "instruction_no" -> 0
      [] field_name = "title" -> 1
      [] field_name = "content" -> 2
      [] field_name = "issued_at" -> 3
      [] OTHER -> 9

Cmp(x, y) == IF x < y THEN "Less" ELSE IF x = y THEN "Equal" ELSE "Greater"

compare_no_field_rank(a, b) ==
    IF kind_rank(a) # kind_rank(b) THEN Cmp(kind_rank(a), kind_rank(b))
    ELSE Cmp(highlight_score(b), highlight_score(a))

(* lines 326-343: the comparator of out.sort_by *)
compare(a, b) ==
    IF kind_rank(a) # kind_rank(b) THEN Cmp(kind_rank(a), kind_rank(b))
    ELSE IF /\ a.kind = "main_doc_field" /\ b.kind = "main_doc_field"
            /\ field_rank(a.field_name) # field_rank(b.field_name)
         THEN Cmp(field_rank(a.field_name), field_rank(b.field_name))
    ELSE Cmp(highlight_score(b), highlight_score(a))

(* slice::sort_by is stable: x goes behind everything not greater than it *)
RECURSIVE insert_sorted(_, _)
insert_sorted(sorted, x) ==
    IF sorted = <<>> THEN << x >>
    ELSE IF compare(x, Head(sorted)) = "Less" THEN << x >> \o sorted
    ELSE << Head(sorted) >> \o insert_sorted(Tail(sorted), x)
RECURSIVE sort_by(_, _)
sort_by(sorted, rest) ==
    IF rest = <<>> THEN sorted ELSE sort_by(insert_sorted(sorted, Head(rest)), Tail(rest))

has_more_at_least(out, offset, limit) == Len(out) >= offset + limit

(* line 346 *)
has_more(out, offset, limit) == Len(out) > offset + limit

(* lines 347-351: skip(offset).take(limit) *)
items(out, offset, limit) ==
    SubSeq(out, offset + 1, IF Len(out) < offset + limit THEN Len(out) ELSE offset + limit)


InitSearch ==
    /\ InitLibrary /\ fk_default
    /\ batch = NoBatch /\ fx = NoFx /\ hl = NoHl /\ zd = NoZd
    /\ wa = NoWa
    /\ \E req \in SearchRequest :
       \E docx \in Matching(docx_blocks_fts_rows), field \in Matching(main_doc_fts_rows),
          anno \in {annotations_fts_rows}, attach \in {attachments_fts_rows} :
          sq = [ req |-> req, pc |-> "start", done |-> FALSE,
                 matching |-> [docx |-> docx, field |-> field, anno |-> anno, attach |-> attach],
                 limit |-> 0, offset |-> 0, need |-> 0, fetch |-> 0, cut |-> {},
                 results_docx |-> <<>>, results_field |-> <<>>,
                 results_attach |-> <<>>, results_anno |-> <<>>,
                 out |-> <<>>, items |-> <<>>, has_more |-> FALSE ]

(* lines 172-173 *)
clamp_limit(req) == LET l == unwrap_or(req.page.limit, 50) IN IF l < 200 THEN l ELSE 200
clamp_offset(req) == LET o == unwrap_or(req.page.offset, 0) IN IF o < 20000 THEN o ELSE 20000

(* lines 203-204; no sum here comes near usize::MAX, so nothing saturates *)
need_of(offset, limit) == offset + limit + 1
fetch_of(need) ==
    LET capped == IF need * 4 < 5000 THEN need * 4 ELSE 5000
    IN  IF capped > 200 THEN capped ELSE 200

(* lines 172-182: a blank query returns an empty page *)
search_blank ==
    /\ ~sq.done /\ sq.pc = "start"
    /\ build_match_query(sq.req.query, {}) = {}
    /\ sq' = [sq EXCEPT !.limit = clamp_limit(sq.req), !.offset = clamp_offset(sq.req),
                        !.items = <<>>, !.has_more = FALSE,
                        !.pc = "returned", !.done = TRUE]
    /\ UNCHANGED not_sq

(* lines 172-227: clamp, over-fetch from the four tables, highlights *)
search_fetch ==
    /\ ~sq.done /\ sq.pc = "start"
    /\ \E cut \in Cuts(trim(sq.req.query)) :
        /\ build_match_query(sq.req.query, cut) # {}
        /\ LET limit == clamp_limit(sq.req)
               offset == clamp_offset(sq.req)
               need == need_of(offset, limit)
               fetch == fetch_of(need)
               allowed == allowed_archives_set(sq.req)
               want == sq.req.file_types
           IN  sq' = [sq EXCEPT
                 !.limit = limit, !.offset = offset, !.need = need, !.fetch = fetch,
                 !.cut = cut,
                 !.results_docx = with_highlights(
                     query_docx_blocks(sq.matching.docx, fetch, allowed), sq.req.query, cut),
                 !.results_field = query_main_doc_fields(sq.matching.field, fetch, allowed),
                 !.results_attach = with_highlights(
                     query_attachment_names(sq.matching.attach, fetch, allowed, want),
                     sq.req.query, cut),
                 !.results_anno = with_highlights(
                     query_annotations(sq.matching.anno, fetch, allowed, want),
                     sq.req.query, cut),
                 !.pc = "fetched"]
    /\ UNCHANGED not_sq

(* lines 229-314: field highlights, the content hits a block hit covers are *)
(* dropped, then the type filter                                            *)
search_dedupe ==
    /\ ~sq.done /\ sq.pc = "fetched"
    /\ sq' = [sq EXCEPT
          !.results_field = retain_docx(
              filtered_field_results(with_highlights(sq.results_field, sq.req.query, sq.cut),
                                     sq.results_docx, sq.req.query, sq.cut),

              sq.req.file_types),
          !.results_docx = retain_docx(sq.results_docx, sq.req.file_types),
          !.pc = "filtered"]
    /\ UNCHANGED not_sq

(* lines 316-358: merge, sort, slice, return *)
search_page ==
    /\ ~sq.done /\ sq.pc = "filtered"
    /\ LET out == sort_by(<<>>, sq.results_docx \o sq.results_field
                                \o sq.results_anno \o sq.results_attach)
       IN  sq' = [sq EXCEPT !.out = out,
                            !.has_more = has_more(out, sq.offset, sq.limit),
                            !.items = items(out, sq.offset, sq.limit),
                            !.pc = "returned", !.done = TRUE]
    /\ UNCHANGED not_sq

NextSearch ==
    \/ search_blank
    \/ search_fetch
    \/ search_dedupe
    \/ search_page

SpecSearch == InitSearch /\ [][NextSearch]_vars


----------------------------------------------------------------------------
(* Claims about search_paged_impl *)

(* the positions of the merged list that fall in the page *)
InPage == { i \in 1..Len(sq.out) : sq.offset < i /\ i <= sq.offset + sq.limit }

(* C13: the page is the merged ranked list sliced at [offset, offset+limit), *)
(* with limit clamped to at most 200 (50 when absent) and offset to at most *)
(* 20000 whatever was asked, so a page never holds more than limit hits;    *)
(* has_more is true exactly when the merged list is longer than             *)
(* offset+limit.                                                            *)
C13_PageIsSlice ==
    sq.done =>
        /\ sq.limit <= 200 /\ sq.offset <= 20000
        /\ \A l \in sq.req.page.limit : sq.limit = l \/ (l > 200 /\ sq.limit = 200)
        /\ \A o \in sq.req.page.offset : sq.offset = o \/ (o > 20000 /\ sq.offset = 20000)
        /\ sq.req.page.limit = {} => sq.limit = 50
        /\ sq.req.page.offset = {} => sq.offset = 0
        /\ Len(sq.items) <= sq.limit
        /\ Len(sq.items) = Cardinality(InPage)
        /\ \A i \in InPage : sq.items[i - sq.offset] = sq.out[i]
        /\ sq.has_more <=> Len(sq.out) > sq.offset + sq.limit

(* a second page of two hits was returned and more hits follow *)
C13_Witness ==
    /\ sq.done
    /\ sq.offset = 1 /\ sq.limit = 2
    /\ Len(sq.items) = 2
    /\ sq.has_more


(* the priorities of the ranking: a smaller number is a higher priority *)
KindPriority(r) ==
    CASE r.kind = "docx_block" -> 1
      [] r.kind = "main_doc_field" -> 2
      [] r.kind = "annotation" -> 3
      [] r.kind = "attachment_name" -> 4
FieldPriority(r) ==
    CASE r.field_name = "instruction_no" -> 1
      [] r.field_name = "title" -> 2
      [] r.field_name = "content" -> 3
      [] r.field_name = "issued_at" -> 4
      [] OTHER -> 5
RECURSIVE Span(_, _)
Span(r, i) ==
    IF i > Len(r.highlights) THEN 0
    ELSE (r.highlights[i].end - r.highlights[i].start) + Span(r, i + 1)

(* C14: for any two hits a before b of the merged list, a's entity kind     *)
(* (block, main-document field, annotation, attachment name) has no lower   *)
(* priority than b's; two field hits are in field-name order (number,       *)
(* title, content, issued-at, other); and when kind and field priority are  *)
(* equal, a's total highlighted span is at least b's.                       *)
C14_Ranked ==
    sq.done =>
        \A i \in 1..Len(sq.out), j \in 1..Len(sq.out) :
            i < j =>
                LET a == sq.out[i]
                    b == sq.out[j]
                IN  /\ KindPriority(a) <= KindPriority(b)
                    /\ (a.kind = "main_doc_field" /\ b.kind = "main_doc_field")
                          => FieldPriority(a) <= FieldPriority(b)
                    /\ (/\ KindPriority(a) = KindPriority(b)
                        /\ a.kind = "main_doc_field" => FieldPriority(a) = FieldPriority(b))
                          => Span(a, 1) >= Span(b, 1)

(* a merged list in which the sort moved a block hit with the wider span    *)
(* in front, and a title hit in front of a content hit, with an annotation  *)
(* behind them                                                              *)
C14_Witness ==
    /\ sq.done
    /\ Len(sq.out) >= 5
    /\ sq.out[1].kind = "docx_block" /\ sq.out[1].block_id = BlockId(2)
    /\ sq.out[2].kind = "docx_block" /\ Span(sq.out[1], 1) > Span(sq.out[2], 1)
    /\ sq.out[3].kind = "main_doc_field" /\ sq.out[3].field_name = "title"
    /\ sq.out[4].kind = "main_doc_field" /\ sq.out[4].field_name = "content"
    /\ sq.out[5].kind = "annotation"


(* the block hits and the field hits the four queries of the call returned *)
BlockHits == query_docx_blocks(sq.matching.docx, sq.fetch, allowed_archives_set(sq.req))
FieldHits == query_main_doc_fields(sq.matching.field, sq.fetch, allowed_archives_set(sq.req))


(* a block hit of archive a lies in a's content provenance list *)
Covered(a) ==
    \E r \in Elems(BlockHits) :
        r.archive_id = a /\ InList(r.block_id, main_doc_content_ids[a])

IsFieldHit(r, a, field_name) ==
    r.kind = "main_doc_field" /\ r.archive_id = a /\ r.field_name = field_name

KeepsDocx == sq.req.file_types = {} \/ \E want \in sq.req.file_types : "docx_main" \in want

(* C15: when the block hits include a block of archive A that is in A's     *)
(* content provenance list, the merged result has no content-field hit of   *)
(* A; the hits of A's other fields, and the content hits of archives        *)
(* without such a block hit, are not dropped by this rule (they are in the  *)
(* merged result unless the type filter excludes the main document).        *)
C15_CoveredContentDropped ==
    sq.done =>
        /\ \A r \in Elems(sq.out) :
              ~(r.kind = "main_doc_field" /\ r.field_name = "content" /\ Covered(r.archive_id))
        /\ KeepsDocx =>
              \A f \in Elems(FieldHits) :
                  (f.field_name # "content" \/ ~Covered(f.archive_id)) =>
                      \E r \in Elems(sq.out) : IsFieldHit(r, f.archive_id, f.field_name)

(* a search whose block hits cover A1's content: of A1's content and title  *)
(* hits only the title is in the merged result                              *)
C15_Witness ==
    /\ sq.done
    /\ Covered("A1")
    /\ \E f \in Elems(FieldHits) : IsFieldHit(f, "A1", "content")
    /\ \E r \in Elems(sq.out) : IsFieldHit(r, "A1", "title")
    /\ ~\E r \in Elems(sq.out) : IsFieldHit(r, "A1", "content")


(* C19: once limit and offset are clamped, the number of rows asked of each *)
(* of the four tables is at least offset + limit + 1.                       *)
C19_FetchCoversPage ==
    sq.pc \in {"fetched", "filtered"} => sq.fetch >= sq.offset + sq.limit + 1

----------------------------------------------------------------------------
(* importer.rs: parse_zip_date_from_name.  A name is the sequence of its    *)
(* characters, built from the pieces below and the extension .zip.          *)

MaxPieces == 3   \* pieces in the longest file stem

Digit == {"0", "1", "2", "3", "4", "5", "6", "7", "8", "9"}
is_ascii_digit(c) == c \in Digit
DigitValue(c) ==
    CASE c = "0" -> 0 [] c = "1" -> 1 [] c = "2" -> 2 [] c = "3" -> 3 [] c = "4" -> 4
      [] c = "5" -> 5 [] c = "6" -> 6 [] c = "7" -> 7 [] c = "8" -> 8 [] c = "9" -> 9

Piece ==
    { << "2", "0", "2", "4", "0", "1", "3", "1" >>,            \* 20240131
      << "2", "0", "2", "3", "0", "7", "0", "4" >>,            \* 20230704
      << "2", "0", "2", "4", "1", "3", "0", "1" >>,            \* 20241301, no date
      << "2", "0", "2", "4", "-", "0", "2", "-", "2", "9" >>,  \* 2024-02-29
      << "2", "0", "2", "3", "-", "0", "2", "-", "2", "9" >>,  \* 2023-02-29, no date
      << "7" >>, << "-" >>, << "_" >>, << " " >>, << "a" >> }

RECURSIVE Flatten(_)
Flatten(pieces) == IF pieces = <<>> THEN <<>> ELSE Head(pieces) \o Flatten(Tail(pieces))
FileName(pieces) == Flatten(pieces) \o << ".", "z", "i", "p" >>

(* now_ts() of the import, line 379: the last second of 2023-12-31 and the  *)
(* first of 2024-01-01 in UTC+8, and the last second of 2024-02-29 in UTC   *)
ImportedAt == { 1704038399, 1704038400, 1709251199 }

InitZipDate ==
    /\ InitLibrary /\ fk_default
    /\ batch = NoBatch /\ fx = NoFx /\ hl = NoHl /\ sq = NoSq
    /\ wa = NoWa

    /\ \E pieces \in SeqsUpTo(Piece, MaxPieces), imported_at \in ImportedAt :
          zd = [ name |-> FileName(pieces), imported_at |-> imported_at,
                 pc |-> "start", done |-> FALSE,
                 candidates |-> <<>>, zip_date |-> 0 ]

(* Path::file_stem, lines 338-341: the name before its last dot, the whole  *)
(* name when it has no dot behind its first character                       *)
file_stem(name) ==
    LET dots == { i \in 2..Len(name) : name[i] = "." }
    IN  IF dots = {} THEN name
        ELSE SubSeq(name, 1, (CHOOSE i \in dots : \A j \in dots : j <= i) - 1)

(* lines 342-345: split at every character that is no digit and no hyphen,  *)
(* empty parts dropped; cur is the part being read                          *)
RECURSIVE split_candidates(_, _)
split_candidates(str, cur) ==
    IF str = <<>> THEN (IF cur = <<>> THEN <<>> ELSE << cur >>)
    ELSE IF is_ascii_digit(Head(str)) \/ Head(str) = "-"
         THEN split_candidates(Tail(str), Append(cur, Head(str)))
         ELSE (IF cur = <<>> THEN <<>> ELSE << cur >>) \o split_candidates(Tail(str), <<>>)

(* str::parse::<u32>() of a part without a sign: Some(n) as {n}, Err as {} *)
RECURSIVE parse_digits(_, _)
parse_digits(str, acc) ==
    IF str = <<>> THEN {acc}
    ELSE IF is_ascii_digit(Head(str))
         THEN parse_digits(Tail(str), acc * 10 + DigitValue(Head(str)))
         ELSE {}
parse_u32(str) == IF str = <<>> THEN {} ELSE parse_digits(str, 0)
(* str::parse::<i32>(): a leading hyphen is a sign *)
parse_i32(str) ==
    IF str # <<>> /\ Head(str) = "-"
    THEN { 0 - n : n \in parse_u32(Tail(str)) }
    ELSE parse_u32(str)

(* chrono: NaiveDate::from_ymd_opt *)
is_leap_year(y) == y % 4 = 0 /\ (y % 100 # 0 \/ y % 400 = 0)
days_in_month(y, m) ==
    CASE m \in {1, 3, 5, 7, 8, 10, 12} -> 31
      [] m \in {4, 6, 9, 11} -> 30
      [] m = 2 -> IF is_leap_year(y) THEN 29 ELSE 28
      [] OTHER -> 0
from_ymd_opt(y, m, d) ==
    IF m \in 1..12 /\ d >= 1 /\ d <= days_in_month(y, m)
    THEN { [year |-> y, month |-> m, day |-> d] } ELSE {}

(* lines 319-336: try_parse, Option<NaiveDate> as a set *)
try_parse(s) ==
    IF Len(s) = 8 /\ \A i \in 1..8 : is_ascii_digit(s[i])
    THEN UNION { from_ymd_opt(y, m, d) : y \in parse_i32(SubSeq(s, 1, 4)),
                                         m \in parse_u32(SubSeq(s, 5, 6)),
                                         d \in parse_u32(SubSeq(s, 7, 8)) }
    ELSE IF Len(s) = 10 /\ s[5] = "-" /\ s[8] = "-"
    THEN UNION { from_ymd_opt(y, m, d) : y \in parse_i32(SubSeq(s, 1, 4)),
                                         m \in parse_u32(SubSeq(s, 6, 7)),
                                         d \in parse_u32(SubSeq(s, 9, 10)) }
    ELSE {}

(* chrono: the days between 1970-01-01 and a date, and back *)
days_from_civil(date) ==
    LET y == IF date.month <= 2 THEN date.year - 1 ELSE date.year
        era == y \div 400
        yoe == y - era * 400
        mp == IF date.month > 2 THEN date.month - 3 ELSE date.month + 9
        doy == (153 * mp + 2) \div 5 + date.day - 1
        doe == yoe * 365 + yoe \div 4 - yoe \div 100 + doy
    IN  era * 146097 + doe - 719468
civil_from_days(days) ==
    LET z == days + 719468
        era == z \div 146097
        doe == z - era * 146097
        yoe == (doe - doe \div 1460 + doe \div 36524 - doe \div 146096) \div 365
        doy == doe - (365 * yoe + yoe \div 4 - yoe \div 100)
        mp == (5 * doy + 2) \div 153
        d == doy - (153 * mp + 2) \div 5 + 1
        m == IF mp < 10 THEN mp + 3 ELSE mp - 9
    IN  [year |-> (yoe + era * 400) + (IF m <= 2 THEN 1 ELSE 0), month |-> m, day |-> d]

(* lines 347-351 and 359-363: 00:00 of the date in UTC+8, as a timestamp *)
local_midnight(date) == days_from_civil(date) * 86400 - 8 * 3600
(* lines 357-358: the date of a timestamp in UTC+8 *)
local_date(ts) == civil_from_days((ts + 8 * 3600) \div 86400)

(* lines 338-345 *)
zip_date_candidates ==
    /\ ~zd.done /\ zd.pc = "start"
    /\ zd' = [zd EXCEPT !.candidates = split_candidates(file_stem(zd.name), <<>>),
                        !.pc = "loop"]
    /\ UNCHANGED not_zd

(* lines 346-347: a candidate that is no date *)
zip_date_next ==
    /\ ~zd.done /\ zd.pc = "loop"
    /\ zd.candidates # <<>>
    /\ try_parse(Head(zd.candidates)) = {}
    /\ zd' = [zd EXCEPT !.candidates = Tail(@)]
    /\ UNCHANGED not_zd

(* lines 347-353: the first candidate that is a date *)
zip_date_found ==
    /\ ~zd.done /\ zd.pc = "loop"
    /\ zd.candidates # <<>>
    /\ \E d \in try_parse(Head(zd.candidates)) :
          zd' = [zd EXCEPT !.zip_date = local_midnight(d), !.pc = "found", !.done = TRUE]
    /\ UNCHANGED not_zd

(* lines 356-363: no candidate is a date *)
zip_date_fallback ==
    /\ ~zd.done /\ zd.pc = "loop"
    /\ zd.candidates = <<>>
    /\ zd' = [zd EXCEPT !.zip_date = local_midnight(local_date(zd.imported_at)),
                        !.pc = "fallback", !.done = TRUE]
    /\ UNCHANGED not_zd

NextZipDate ==
    \/ zip_date_candidates
    \/ zip_date_next
    \/ zip_date_found
    \/ zip_date_fallback

SpecZipDate == InitZipDate /\ [][NextZipDate]_vars


----------------------------------------------------------------------------
(* Claim about parse_zip_date_from_name *)

AllDigits(s) == \A i \in 1..Len(s) : is_ascii_digit(s[i])

(* the calendar date written at position k of the stem as YYYYMMDD or as    *)
(* YYYY-MM-DD, if one is                                                    *)
DateAt(stem, k) ==
    LET s8 == SubSeq(stem, k, k + 7)
        s10 == SubSeq(stem, k, k + 9)
    IN  IF k + 7 <= Len(stem) /\ AllDigits(s8)
        THEN UNION { from_ymd_opt(y, m, d) : y \in parse_digits(SubSeq(s8, 1, 4), 0),
                                             m \in parse_digits(SubSeq(s8, 5, 6), 0),
                                             d \in parse_digits(SubSeq(s8, 7, 8), 0) }
        ELSE IF /\ k + 9 <= Len(stem)
                /\ AllDigits(SubSeq(s10, 1, 4) \o SubSeq(s10, 6, 7) \o SubSeq(s10, 9, 10))
                /\ s10[5] = "-" /\ s10[8] = "-"
        THEN UNION { from_ymd_opt(y, m, d) : y \in parse_digits(SubSeq(s10, 1, 4), 0),
                                             m \in parse_digits(SubSeq(s10, 6, 7), 0),
                                             d \in parse_digits(SubSeq(s10, 9, 10), 0) }
        ELSE {}

DatePositions(stem) == { k \in 1..Len(stem) : DateAt(stem, k) # {} }
FirstDate(stem) ==
    DateAt(stem, CHOOSE k \in DatePositions(stem) : \A j \in DatePositions(stem) : k <= j)

(* C20: if the stem holds anywhere (behind or before letters, underscores,  *)
(* spaces or hyphens) a YYYYMMDD or YYYY-MM-DD pattern that is a calendar   *)
(* date, the archive date is 00:00 in UTC+8 of the first such date; if no   *)
(* candidate parses it is the start t of the import's day in UTC+8:         *)
(* t <= imported_at < t + 86400 and t + 8*3600 divisible by 86400.          *)
C20_DateAnywhereInStem ==
    zd.done =>
        LET stem == file_stem(zd.name)
            t == zd.zip_date
        IN  /\ DatePositions(stem) # {} =>
                  \A d \in FirstDate(stem) : t = local_midnight(d)
            /\ zd.pc = "fallback" =>
                  /\ t <= zd.imported_at /\ zd.imported_at < t + 86400
                  /\ (t + 8 * 3600) % 86400 = 0


----------------------------------------------------------------------------
(* the names of the entries of a ZIP directory *)
EntryNames(es) == { es[i].name : i \in 1..Len(es) }
(* the directory of the child ZIP stored in the main ZIP under `name` *)
NestedOf(es, name) ==
    UNION { EntryNames(es[i].nested) : i \in { k \in 1..Len(es) : es[k].name = name } }

(* C21: every attachments row has depth 0 or 1; its container path is unset *)
(* exactly at depth 0; the container of a depth-1 row is the virtual path   *)
(* of a depth-0 row of the same archive classified as a nested ZIP; and no  *)
(* row comes from the entries of a ZIP inside a nested ZIP: a depth-0 row   *)
(* is an entry of the archive's ZIP, a depth-1 row an entry of one of its   *)
(* child ZIPs.                                                              *)
C21_AttachmentDepth ==
    \A r \in attachments :
        /\ r.source_depth \in {0, 1}
        /\ (r.container_virtual_path = NoId) <=> (r.source_depth = 0)
        /\ r.source_depth = 1 =>
              \E z \in attachments :
                  /\ z.archive_id = r.archive_id /\ z.source_depth = 0
                  /\ z.virtual_path = r.container_virtual_path
                  /\ z.file_type = "zip_child"
        /\ \A a \in archives :
              a.archive_id = r.archive_id =>
                  IF r.source_depth = 0
                  THEN r.virtual_path \in EntryNames(ZipEntries(a.sha256))
                  ELSE r.virtual_path \in NestedOf(ZipEntries(a.sha256),
                                                  r.container_virtual_path)

(* the attachments of an archive whose child ZIP holds a ZIP: that ZIP is a *)
(* depth-1 row                                                              *)
C21_Witness ==
    \E r \in attachments :
        /\ r.source_depth = 1 /\ r.file_type = "zip_child"
        /\ r.container_virtual_path = "sub.zip" /\ r.virtual_path = "in.zip"
        /\ \E a \in archives : a.archive_id = r.archive_id


(* ------------------------------------------------------------------------ *)
(* The best supporting block of a content hit                               *)
(* ------------------------------------------------------------------------ *)
RECURSIVE RawOccurrences(_, _, _)
RawOccurrences(text, t, k) ==
    IF t = <<>> \/ k + Len(t) - 1 > Len(text) THEN 0
    ELSE IF SubSeq(text, k, k + Len(t) - 1) = t
         THEN 1 + RawOccurrences(text, t, k + Len(t))
         ELSE RawOccurrences(text, t, k + 1)
RECURSIVE TotalOccurrences(_, _)
TotalOccurrences(text, tokens) ==
    IF tokens = {} THEN 0
    ELSE LET t == CHOOSE x \in tokens : TRUE
         IN  RawOccurrences(text, t, 1) + TotalOccurrences(text, tokens \ {t})
ProvenanceText(archive_id, j) ==
    LET bid == main_doc_content_ids[archive_id][j]
    IN  docx_blocks_text[archive_id][CHOOSE i \in 1..Len(docx_blocks_text[archive_id]) :
                                        BlockId(i) = bid]
ProvenanceTotal(archive_id, j) ==
    TotalOccurrences(ProvenanceText(archive_id, j), query_tokens(sq.req.query, sq.cut))
IsContentHit(r) ==
    /\ r.kind = "main_doc_field" /\ r.field_name = "content"
    /\ main_doc_content_ids[r.archive_id] # <<>>

C22_NoTokenWitness ==
    /\ sq.done /\ sq.pc = "returned"
    /\ \E i \in 1..Len(sq.out) :
          /\ IsContentHit(sq.out[i])
          /\ \A j \in 1..4 : ProvenanceTotal(sq.out[i].archive_id, j) = 0
C22_SumWitness ==
    /\ sq.done /\ sq.pc = "returned"
    /\ \E i \in 1..Len(sq.out) :
          IsContentHit(sq.out[i]) /\ sq.out[i].best_block_id = { BlockId(5) }


(* ------------------------------------------------------------------------ *)
(* The filters of a search                                                  *)
(* ------------------------------------------------------------------------ *)
InDateRange(archive_id) ==
    /\ \A f \in sq.req.date_from : f <= archives_zip_date[archive_id]
    /\ \A t \in sq.req.date_to : archives_zip_date[archive_id] <= t
TypeAllowed(r) ==
    \A want \in sq.req.file_types :
        CASE r.kind \in {"docx_block", "main_doc_field"} -> "docx_main" \in want
          [] r.kind = "annotation" -> "annotation" \in want
          [] r.kind = "attachment_name" -> file_type_of[r.file_id] \in want

(* C23: every returned item satisfies the filters of the request: its       *)
(* archive's date lies between date_from and date_to, a missing bound being *)
(* unbounded, and under a type set block and field hits need docx_main,     *)
(* annotation hits need annotation, attachment hits need their file type.   *)
C23_FiltersHold ==
    (sq.done /\ sq.pc = "returned") =>
        \A i \in 1..Len(sq.items) :
            InDateRange(sq.items[i].archive_id) /\ TypeAllowed(sq.items[i])

(* a page of one attachment hit, while the index also matched an attachment *)
(* of another type and one of an archive outside the dates                  *)
C23_Witness ==
    /\ sq.done /\ sq.pc = "returned"
    /\ sq.req.date_to # {} /\ sq.req.file_types # {}
    /\ Len(sq.items) = 1 /\ sq.items[1].kind = "attachment_name"
    /\ \E r \in Elems(sq.matching.attach) : ~TypeAllowed(r)
    /\ \E r \in Elems(sq.matching.attach) : ~InDateRange(r.archive_id)


(* ------------------------------------------------------------------------ *)
(* The shape of a highlight list                                            *)
(* ------------------------------------------------------------------------ *)
(* the UTF-16 code units the ranges cover, and those of the occurrences of  *)
(* the needles in the text                                                  *)
CoveredUnits(highlights) ==
    UNION { highlights[i].start .. (highlights[i].end - 1) : i \in 1..Len(highlights) }
OccurrenceUnits(text, needles) ==
    UNION { UNION { encode_utf16_count(SubSeq(text, 1, k - 1))
                      .. (encode_utf16_count(SubSeq(text, 1, k + Len(n) - 1)) - 1)
                    : k \in Occurrences(text, n) }
            : n \in needles }
RangesWellFormed(text, highlights) ==
    /\ \A i \in 1..Len(highlights) :
          /\ 0 <= highlights[i].start
          /\ highlights[i].start < highlights[i].end
          /\ highlights[i].end <= encode_utf16_count(text)
    /\ \A i \in 1..(Len(highlights) - 1) : highlights[i].end < highlights[i + 1].start
    /\ Len(highlights) <= 20

(* C24: the highlight list is sorted by start, every range has              *)
(* 0 <= start < end <= UTF-16 length of the text, a range ends before the   *)
(* next one starts, there are at most 20 ranges, and a list of fewer than   *)
(* 20 covers exactly the union of all occurrences of the needles.           *)
C24_HighlightsNormalised ==
    hl.done =>
        /\ RangesWellFormed(hl.text, hl.highlights)
        /\ Len(hl.highlights) < 20 =>
              CoveredUnits(hl.highlights) = OccurrenceUnits(hl.text, HlNeedles)

(* the part of C24 that holds: order, bounds, gaps and the cap, and every   *)
(* covered unit belongs to an occurrence of a needle                        *)
C24_RangesWellFormed ==
    hl.done =>
        /\ RangesWellFormed(hl.text, hl.highlights)
        /\ CoveredUnits(hl.highlights) \subseteq OccurrenceUnits(hl.text, HlNeedles)

(* two ranges returned, apart *)
C24_TwoRanges ==
    hl.done /\ Len(hl.highlights) = 2


(* ------------------------------------------------------------------------ *)
(* Index desync and init_db                                                 *)
(* ------------------------------------------------------------------------ *)
(* db.rs, lines 30-54: the four indexes as init_db leaves them; only the    *)
(* annotation index is compared with its table and rebuilt                  *)
init_db ==
    [docx_blocks_fts |-> docx_blocks_fts, main_doc_fts |-> main_doc_fts,
     attachments_fts |-> attachments_fts,
     annotations_fts |-> ensure_annotations_fts_synced]
SourceCount ==
    [docx_blocks_fts |-> Cardinality(docx_blocks), main_doc_fts |-> Cardinality(main_doc),
     attachments_fts |-> Cardinality(attachments),
     annotations_fts |-> Cardinality(annotations)]
IndexCount ==
    [docx_blocks_fts |-> BagCardinality(docx_blocks_fts),
     main_doc_fts |-> BagCardinality(main_doc_fts),
     attachments_fts |-> BagCardinality(attachments_fts),
     annotations_fts |-> BagCardinality(annotations_fts)]

(* C25: for each of the four indexes, when its row count differs from the   *)
(* row count of its source table, init_db, which every operation runs       *)
(* first, leaves it with as many rows as the source table.                  *)
C25_DesyncHealed ==
    \A index \in DOMAIN init_db :
        IndexCount[index] # SourceCount[index]
            => BagCardinality(init_db[index]) = SourceCount[index]

(* the part of C25 that holds: the annotation index after init_db is the    *)
(* full rebuild from annotations whenever the counts differed               *)
C25_AnnotationIndexHealed ==
    IndexCount.annotations_fts # SourceCount.annotations_fts
        => init_db.annotations_fts = rebuild_annotations_fts

(* an annotation without index row while no command is running *)
C25_AnnotationDesync ==
    /\ mpc = "idle"
    /\ IndexCount.annotations_fts # SourceCount.annotations_fts


(* ------------------------------------------------------------------------ *)
(* Skipped and failed files of a batch                                      *)
(* ------------------------------------------------------------------------ *)
(* C26: a file of a batch is counted skipped exactly when an Archive with   *)
(* its fingerprint existed when the file was checked; every other file that *)
(* is not imported is counted failed, whatever its path, its entry names or *)
(* the text of its error.                                                   *)
C26_SkippedIffKnown ==
    batch # NoBatch =>
        \A i \in 1..Len(batch.counted) :
            /\ batch.counted[i] = "skipped" <=> batch.existed[i]
            /\ (batch.counted[i] # "imported" /\ ~batch.existed[i])
                   => batch.counted[i] = "failed"

(* the part of C26 that holds: a file whose fingerprint existed is counted  *)
(* skipped, and a file whose names are free of the marker text is counted   *)
(* skipped only then                                                        *)
C26_SkippedWithoutMarker ==
    batch # NoBatch =>
        \A i \in 1..Len(batch.counted) :
            /\ batch.existed[i] => batch.counted[i] = "skipped"
            /\ (batch.counted[i] = "skipped" /\ ~batch.paths[i].marker) => batch.existed[i]


(* ------------------------------------------------------------------------ *)
(* Two import batches at once                                               *)
(* ------------------------------------------------------------------------ *)
(* importer.rs, lines 88-101: import_zips is an async command that hands    *)
(* import_zips_impl to the blocking thread pool, so two calls run side by   *)
(* side, each on its own connection.  No step fails here for a reason       *)
(* outside the two batches.                                                 *)
Importers == {"w1", "w2"}

InitRace ==
    /\ InitWith(Importers)
    /\ batch = NoBatch /\ fx = NoFx /\ hl = NoHl /\ sq = NoSq /\ zd = NoZd
    /\ wa = NoWa

NextRace ==
    \E w \in Importers :
        \/ import_zips_impl_begin(w)
        \/ import_zips_impl_end(w)
        \/ \E f \in Files : import_one_zip_dedup(w, f)
        \/ import_one_zip_copy(w)
        \/ import_one_zip_insert(w)
        \/ import_one_zip_parse(w)
        \/ import_one_zip_tx(w)
        \/ import_one_zip_commit(w)

SpecRace == InitRace /\ [][NextRace]_vars

NoTrace(a) ==
    /\ a \notin store
    /\ a \notin Ids(archives) \cup Ids(main_doc) \cup Ids(docx_blocks) \cup Ids(attachments)
    /\ \A fts \in {docx_blocks_fts, main_doc_fts, attachments_fts} :
          \A e \in DOMAIN fts : e.archive_id # a

(* C27: however two concurrent import batches interleave, one content has   *)
(* one Archive, and the attempt that loses is counted skipped and leaves no *)
(* Archive row, no content or index row and no stored copy.                 *)
C27_LoserSkipped ==
    /\ \A r1, r2 \in archives : r1.sha256 = r2.sha256 => r1.archive_id = r2.archive_id
    /\ \A w \in DOMAIN wpc :
          (wpc[w] = "loop" /\ outcome[w] \notin {"none", "imported"}) =>
              /\ outcome[w] = "skipped"
              /\ wid[w] # NoId => NoTrace(wid[w])

(* the part of C27 that holds: one Archive per content, and no content or   *)
(* index row of an attempt that did not import                              *)
C27_OneArchivePerContent ==
    /\ \A r1, r2 \in archives : r1.sha256 = r2.sha256 => r1.archive_id = r2.archive_id
    /\ \A w \in DOMAIN wpc :
          (wpc[w] = "loop" /\ outcome[w] \notin {"none", "imported"} /\ wid[w] # NoId) =>
              wid[w] \notin Ids(archives) \cup Ids(main_doc) \cup Ids(docx_blocks)
                            \cup Ids(attachments)


(* ------------------------------------------------------------------------ *)
(* A re-extract that fails                                                  *)
(* ------------------------------------------------------------------------ *)
(* a step in which reparse_main_doc_impl returns an error: before its       *)
(* transaction (unknown id, stored ZIP missing, no main docx) or in it      *)
ReextractFails ==
    \/ /\ mpc = "idle" /\ mpc' = "idle"
       /\ \E a \in seen : reparse_main_doc_impl_read(a)
    \/ /\ mpc = "rex_tx" /\ mpc' = "idle"
       /\ mlast' = NoCommand

(* C28: a re-extract that fails leaves the status and error text of the     *)
(* Archive and all Main Document, Block and Attachment rows and their index *)
(* rows as they were.                                                       *)
C28_FailedReextractChangesNothing ==
    [][ ReextractFails =>
          UNCHANGED <<archives, main_doc, docx_blocks, attachments,
                      docx_blocks_fts, main_doc_fts, attachments_fts>> ]_vars

(* the re-extract of a completed Archive with Main Document, Blocks and     *)
(* Attachments has read the stored ZIP and is at its transaction while an   *)
(* import holds the write lock: the one step open to it is the error return *)
C28_Witness ==
    /\ mpc = "rex_tx" /\ tx_owner # "none"
    /\ \E r \in archives :
          /\ r.archive_id = marg.archive_id /\ r.status = "completed"
          /\ r.archive_id \in Ids(main_doc) \cap Ids(docx_blocks) \cap Ids(attachments)


----------------------------------------------------------------------------
(* importer.rs: enumerate_attachments and write_attachments_tx on the ZIP   *)
(* of one archive                                                           *)

MaxEntries == 2   \* entries of the main ZIP besides the main docx

(* Entries a ZIP can hold: an entry name is any string, also one with the   *)
(* character '|'; a name that ends in .zip is a child ZIP.                  *)
InnerEntries == { Entry("c", "c", "", <<>>), Entry("b.zip|c", "b", "zip|c", <<>>) }
OuterEntries ==
    { Entry("a.zip", "a", "zip", n) : n \in SeqsUpTo(InnerEntries, MaxEntries - 1) }
    \cup { Entry("a.zip|b.zip", "a.zip|b", "zip", n)
           : n \in SeqsUpTo(InnerEntries, MaxEntries - 1) }
    \cup { Entry("r.pdf", "r", "pdf", <<>>) }

InitAttachments ==
    /\ InitLibrary /\ fk_default
    /\ batch = NoBatch /\ fx = NoFx /\ hl = NoHl /\ sq = NoSq /\ zd = NoZd
    /\ \E es \in SeqsUpTo(OuterEntries, MaxEntries) :
          wa = [ entries |-> << Entry("m.docx", "m", "docx", <<>>) >> \o es,
                 archive_id |-> ArchiveUuid(1), pc |-> "start", done |-> FALSE,
                 attachments |-> <<>>, inserted |-> {}, i |-> 0 ]

(* lines 633-711 and 748-750: the attachments of the ZIP, each with its id  *)
(* under the archive's id                                                   *)
write_attachments_tx_ids ==
    /\ ~wa.done /\ wa.pc = "start"
    /\ wa' = [wa EXCEPT
          !.attachments = AttachmentRows(wa.archive_id,
                              enumerate_attachments(wa.entries, "m.docx")),
          !.pc = "insert"]
    /\ UNCHANGED not_wa

(* lines 760-773: INSERT INTO attachments; file_id is the primary key *)
write_attachments_tx_insert ==
    /\ ~wa.done /\ wa.pc = "insert" /\ wa.i < Len(wa.attachments)
    /\ ~\E r \in wa.inserted : r.file_id = wa.attachments[wa.i + 1].file_id
    /\ wa' = [wa EXCEPT !.inserted = @ \cup { wa.attachments[wa.i + 1] }, !.i = @ + 1]
    /\ UNCHANGED not_wa

(* lines 760-771: the INSERT is refused, the error leaves the function *)
write_attachments_tx_refused ==
    /\ ~wa.done /\ wa.pc = "insert" /\ wa.i < Len(wa.attachments)
    /\ \E r \in wa.inserted : r.file_id = wa.attachments[wa.i + 1].file_id
    /\ wa' = [wa EXCEPT !.pc = "failed", !.done = TRUE]
    /\ UNCHANGED not_wa

(* line 776: Ok(()) *)
write_attachments_tx_ok ==
    /\ ~wa.done /\ wa.pc = "insert" /\ wa.i = Len(wa.attachments)
    /\ wa' = [wa EXCEPT !.pc = "written", !.done = TRUE]
    /\ UNCHANGED not_wa

NextAttachments ==
    \/ write_attachments_tx_ids
    \/ write_attachments_tx_insert
    \/ write_attachments_tx_refused
    \/ write_attachments_tx_ok

SpecAttachments == InitAttachments /\ [][NextAttachments]_vars

Triple(r) == << r.source_depth, r.container_virtual_path, r.virtual_path >>

(* C29: within one archive two attachments with different (depth,           *)
(* container path, virtual path) triples have different ids, so the write   *)
(* of the attachments is refused only for a triple that is already written. *)
C29_DistinctTriplesDistinctIds ==
    wa # NoWa =>
        /\ \A i, j \in 1..Len(wa.attachments) :
              Triple(wa.attachments[i]) # Triple(wa.attachments[j])
                  => wa.attachments[i].file_id # wa.attachments[j].file_id
        /\ wa.pc = "failed" =>
              \E r \in wa.inserted : Triple(r) = Triple(wa.attachments[wa.i + 1])

(* the part of C29 that holds: attachments of the main ZIP never share an   *)
(* id with an attachment of another triple                                  *)
C29_DistinctAtDepth0 ==
    wa # NoWa =>
        \A i, j \in 1..Len(wa.attachments) :
            ( /\ Triple(wa.attachments[i]) # Triple(wa.attachments[j])
              /\ wa.attachments[i].source_depth = 0 )
                => wa.attachments[i].file_id # wa.attachments[j].file_id


(* ------------------------------------------------------------------------ *)
(* Archive rows and stored copies                                           *)
(* ------------------------------------------------------------------------ *)
(* no import_one_zip call and no command is under way *)
AtRest ==
    /\ mpc = "idle"
    /\ \A w \in DOMAIN wpc : wpc[w] \in {"idle", "loop"}

(* C30: in every state reached through import, re-extract and               *)
(* delete_archive, failing steps included, the stored ZIP of every Archive  *)
(* row exists and the store holds no archive directory without an Archive   *)
(* row.                                                                     *)
C30_StoreMatchesArchives ==
    AtRest => store = ArchiveIds

(* the directions of C30 taken apart, as they fail: a stored copy without   *)
(* Archive row, and an Archive row without stored copy                      *)
C30_NoCopyWithoutRow == AtRest => store \subseteq ArchiveIds
C30_NoRowWithoutCopy == AtRest => ArchiveIds \subseteq store
====
